---- MODULE Spec2Model ----
(***************************************************************************)
(* cellsnp-lite, pileup mode: the per-site aggregation (csp_mplp_push,     *)
(* csp_mplp_stat), the chromosome worker (csp_pileup_core), the shard      *)
(* scheduler (csp_pileup) and the output merger (merge_mtx, rewrite_mtx).  *)
(***************************************************************************)
EXTENDS Integers, Sequences, FiniteSets, TLC

(***************************************************************************)
(* Bounds of the model.                                                    *)
(***************************************************************************)
\* chromosomes in gs->chroms
NChrom == 2
\* sites the decoder yields in one run, over all chromosomes
MaxSites == 2
\* largest min_count tried
MaxMinCount == 2
\* reads the decoder yields in one run of the push-level specification
MaxPush == 3

\* min_maf is MafNum / MafDen, a fraction in [0, 0.5]
MafDen == 4
MafNums == {0, 2}

Bases == 0..4
Cells == {1, 2}
\* barcode / UMI strings are numbered; 0 is an absent tag
UnknownBarcode == Cardinality(Cells) + 1
Umis == {1, 2}
Quals == {20, 30}

(***************************************************************************)
(* Base indexing: the 4-bit code of a base to 0..4 (A C G T, 4 = other).   *)
(***************************************************************************)
seq_nt16_int == <<4, 0, 1, 4, 2, 4, 4, 4, 3, 4, 4, 4, 4, 4, 4, 4>>

seq_nt16_idx2int(code) == seq_nt16_int[code + 1]

Nt16A == 1
Nt16C == 2
Nt16G == 4
Nt16T == 8
Nt16N == 15

RECURSIVE SumTo(_, _)
SumTo(f, n) == IF n < 0 THEN 0 ELSE f[n] + SumTo(f, n - 1)

\* sum of a count vector over the five base indices
Sum5(bc) == SumTo(bc, 4)

ZeroBc == [b \in Bases |-> 0]

(***************************************************************************)
(* Global settings (gs): fixed after setup.                                *)
(***************************************************************************)
use_umi(g) == g.umi_tag

use_barcodes(g) == g.cell_tag

use_sid(g) == g.nsid > 0

\* number of sample groups made by csp_mplp_prepare
PrepareNsg(g) == IF use_barcodes(g) THEN g.nbarcode ELSE g.nsid

\* csp_plp_init / the per-cell state after csp_mplp_reset
PlpInit == [bc |-> ZeroBc, tc |-> 0, qu |-> [b \in Bases |-> <<>>], hug |-> {},
            ad |-> 0, dp |-> 0, oth |-> 0]

\* csp_mplp_init / the per-site state after csp_mplp_reset
MplpInit == [bc |-> ZeroBc, tc |-> 0, inf_rid |-> -1, inf_aid |-> -1,
             ref_idx |-> -1, alt_idx |-> -1, ad |-> 0, dp |-> 0, oth |-> 0,
             nr_ad |-> 0, nr_dp |-> 0, nr_oth |-> 0]

csp_mplp_prepare(g) == [i \in 1..PrepareNsg(g) |-> PlpInit]

csp_mplp_reset_plp(ps) == [i \in DOMAIN ps |-> PlpInit]

(***************************************************************************)
(* pileup_read: 0 the read is used, 1 a tag is missing, 2 it is filtered.  *)
(***************************************************************************)
\* mutant: the length of the alignment is not looked at
pileup_read_anylen(rd, g) ==
    IF use_umi(g) /\ rd.umi = 0 THEN 1
    ELSE IF use_barcodes(g) /\ rd.cb = 0 THEN 1
    ELSE IF rd.is_del THEN 2
    ELSE IF rd.is_refskip THEN 2
    ELSE 0

pileup_read(rd, g) ==
    IF use_umi(g) /\ rd.umi = 0 THEN 1
    ELSE IF use_barcodes(g) /\ rd.cb = 0 THEN 1
    ELSE IF rd.is_del THEN 2
    ELSE IF rd.is_refskip THEN 2
    ELSE IF g.min_len > 0 /\ rd.laln < g.min_len THEN 2
    ELSE 0

(***************************************************************************)
(* csp_mplp_push: the cell group of a read, then the count.                *)
(***************************************************************************)
\* map_sg_get on the barcode: the ordinal of the cell group, 0 when absent
map_sg_get(g, cb) == IF cb \in 1..g.nbarcode THEN cb ELSE 0

PushCount(p, rd) ==
    LET idx == seq_nt16_idx2int(rd.base)
    IN [p EXCEPT !.bc[idx] = @ + 1, !.qu[idx] = Append(@, rd.qual)]

\* mutant: a read is counted whether or not its UMI was seen
PushPlpNoDedup(p, rd, g) ==
    [PushCount(p, rd) EXCEPT !.hug = IF use_umi(g) THEN @ \cup {rd.umi} ELSE @]

PushPlp(p, rd, g) ==
    IF use_umi(g)
    THEN IF rd.umi \in p.hug THEN p
         ELSE [PushCount(p, rd) EXCEPT !.hug = @ \cup {rd.umi}]
    ELSE PushCount(p, rd)

\* mutant: a barcode that is not in the list goes to the first cell group
PushCellFirst(rd, sid, g) ==
    IF use_barcodes(g) THEN (IF rd.cb \in 1..g.nbarcode THEN rd.cb ELSE 1)
    ELSE IF use_sid(g) THEN sid + 1
    ELSE -1

\* the cell group a push resolves to: 0 none (return 1), -1 error
PushCell(rd, sid, g) ==
    IF use_barcodes(g) THEN map_sg_get(g, rd.cb)
    ELSE IF use_sid(g) THEN sid + 1
    ELSE -1

csp_mplp_push(ps, rd, sid, g) ==
    LET k == PushCell(rd, sid, g)
    IN IF k = 0 THEN [r |-> 1, plp |-> ps]
       ELSE IF k < 0 THEN [r |-> -1, plp |-> ps]
       ELSE [r |-> 0, plp |-> [ps EXCEPT ![k] = PushPlp(ps[k], rd, g)]]

(***************************************************************************)
(* infer_allele: the two largest counts among A, C, G, T; on a tie the     *)
(* lower index wins; index 4 is never chosen.                              *)
(***************************************************************************)
ArgMax(bc, S) ==
    CHOOSE i \in S : \A j \in S : bc[j] < bc[i] \/ (bc[j] = bc[i] /\ i <= j)

infer_allele(bc) ==
    LET rid == ArgMax(bc, 0..3)
    IN [rid |-> rid, aid |-> ArgMax(bc, (0..3) \ {rid})]

(***************************************************************************)
(* csp_mplp_stat: ret 0 the site is emitted, 1 it is skipped.              *)
(***************************************************************************)
\* the per-cell totals and the summed counts (first loop)
StatTc(ps) == [i \in DOMAIN ps |-> [ps[i] EXCEPT !.tc = @ + Sum5(ps[i].bc)]]

RECURSIVE StatBc(_, _, _)
StatBc(ps, i, bc) ==
    IF i > Len(ps) THEN bc
    ELSE StatBc(ps, i + 1, [b \in Bases |-> bc[b] + ps[i].bc[b]])

\* tc < min_count
BelowMinCount(tc, g) == tc < g.min_count

\* bc[inf_aid] < tc * min_maf, with min_maf = maf / MafDen
BelowMinMaf(bc, aid, tc, g) == bc[aid] * MafDen < tc * g.maf

\* mutant: the inferred pair is reported whatever the caller has set
StatPairInferred(m, inf) == [ref |-> inf.rid, alt |-> inf.aid]

\* mutant: the inferred reference taken for both alleles
StatPairSame(m, inf) ==
    IF m.ref_idx < 0 \/ m.alt_idx < 0
    THEN [ref |-> inf.rid, alt |-> inf.rid]
    ELSE [ref |-> m.ref_idx, alt |-> m.alt_idx]

\* the reported pair: the inferred one unless both were set before
StatPair(m, inf) ==
    IF m.ref_idx < 0 \/ m.alt_idx < 0
    THEN [ref |-> inf.rid, alt |-> inf.aid]
    ELSE [ref |-> m.ref_idx, alt |-> m.alt_idx]

CellAd(p, alt) == p.bc[alt]

\* mutant: dp without the alternate allele
CellDpRefOnly(p, ref, alt) == p.bc[ref]

CellDp(p, ref, alt) == p.bc[ref] + CellAd(p, alt)

CellOth(p, ref, alt) == p.tc - CellDp(p, ref, alt)

StatCells(ps, ref, alt) ==
    [i \in DOMAIN ps |->
        [ps[i] EXCEPT !.ad = CellAd(ps[i], alt),
                      !.dp = CellDp(ps[i], ref, alt),
                      !.oth = CellOth(ps[i], ref, alt)]]

\* mutant: every cell group is counted as a record
NonZeroAll(ps, f) == Len(ps)

\* number of cell groups whose field f is not zero
NonZero(ps, f) == Cardinality({i \in DOMAIN ps : ps[i][f] # 0})

csp_mplp_stat(ps, m, g) ==
    LET ps1 == StatTc(ps)
        bc == StatBc(ps, 1, m.bc)
        tc == m.tc + Sum5(bc)
        m1 == [m EXCEPT !.bc = bc, !.tc = tc]
        inf == infer_allele(bc)
        m2 == [m1 EXCEPT !.inf_rid = inf.rid, !.inf_aid = inf.aid]
        pr == StatPair(m2, inf)
        ad == bc[pr.alt]
        dp == bc[pr.ref] + ad
        ps2 == StatCells(ps1, pr.ref, pr.alt)
    IN IF BelowMinCount(tc, g) THEN [ret |-> 1, plp |-> ps1, mplp |-> m1]
       ELSE IF BelowMinMaf(bc, inf.aid, tc, g) THEN [ret |-> 1, plp |-> ps1, mplp |-> m2]
       ELSE [ret |-> 0, plp |-> ps2,
             mplp |-> [m2 EXCEPT !.ref_idx = pr.ref, !.alt_idx = pr.alt,
                                 !.ad = ad, !.dp = dp, !.oth = tc - dp,
                                 !.nr_ad = @ + NonZero(ps2, "ad"),
                                 !.nr_dp = @ + NonZero(ps2, "dp"),
                                 !.nr_oth = @ + NonZero(ps2, "oth")]]

(***************************************************************************)
(* Matrix files are sequences of lines: a '%' header line, or a line of    *)
(* tab-separated numbers (the empty line has no field).                    *)
(***************************************************************************)
PctLine(i) == [c |-> "%", f |-> <<i>>]

DatLine(f) == [c |-> "d", f |-> f]

EmptyLine == DatLine(<<>>)

\* the two '%' lines every final matrix file starts with
MtxHeader == <<PctLine(1), PctLine(2)>>

Kinds == {"ad", "dp", "oth"}

\* csp_mplp_to_mtx, one matrix: a line per cell group with a nonzero value;
\* a temp file holds (col, value) and an empty line ending the site, a final
\* file holds (row, col, value)
RECURSIVE MtxCells(_, _, _, _, _)
MtxCells(ps, kind, i, idx, is_tmp) ==
    IF i > Len(ps) THEN <<>>
    ELSE (IF ps[i][kind] = 0 THEN <<>>
          ELSE IF is_tmp THEN <<DatLine(<<i, ps[i][kind]>>)>>
          ELSE <<DatLine(<<idx, i, ps[i][kind]>>)>>)
         \o MtxCells(ps, kind, i + 1, idx, is_tmp)

csp_mplp_to_mtx(ps, kind, idx, is_tmp) ==
    MtxCells(ps, kind, 1, idx, is_tmp) \o (IF is_tmp THEN <<EmptyLine>> ELSE <<>>)

\* the letter of a base index
seq_nt16_int2char(i) == <<"A", "C", "G", "T", "N">>[i + 1]

\* the line of the base VCF for the site at chrom and (0-based) pos:
\* "%s\t%d\t.\t%c\t%c\t.\tPASS\tAD=%ld;DP=%ld;OTH=%ld" of a[n], pos + 1, ...
VcfLine(chrom, pos, m) ==
    [chrom |-> chrom, pos |-> pos + 1, ref |-> seq_nt16_int2char(m.ref_idx),
     alt |-> seq_nt16_int2char(m.alt_idx), ad |-> m.ad, dp |-> m.dp, oth |-> m.oth]

(***************************************************************************)
(* pileup_snp: every read of the column through pileup_read and            *)
(* csp_mplp_push, the early min_count check, then csp_mplp_stat.           *)
(* state 0 the site is emitted, 1 it is skipped, -1 error.                 *)
(***************************************************************************)
\* one read of the column: [st |-> -1 on error, plp, npushed]
SnpRead(acc, rd, g) ==
    IF pileup_read(rd, g) # 0 THEN acc
    ELSE LET res == csp_mplp_push(acc.plp, rd, IF use_barcodes(g) THEN -1 ELSE rd.file, g)
         IN IF res.r < 0 THEN [acc EXCEPT !.st = -1]
            ELSE IF res.r = 0 THEN [acc EXCEPT !.plp = res.plp, !.npushed = @ + 1]
            ELSE acc

RECURSIVE SnpReads(_, _, _, _)
SnpReads(acc, reads, j, g) ==
    IF j > Len(reads) \/ acc.st < 0 THEN acc
    ELSE SnpReads(SnpRead(acc, reads[j], g), reads, j + 1, g)

\* mutant: the early check off by one
EarlySkipOffByOne(npushed, g) == npushed <= g.min_count

\* npushed < min_count
EarlySkip(npushed, g) == npushed < g.min_count

\* the end of pileup_snp, after the reads were pushed
SnpFinish(ps, m, npushed, g) ==
    IF EarlySkip(npushed, g) THEN [state |-> 1, plp |-> ps, mplp |-> m]
    ELSE LET res == csp_mplp_stat(ps, m, g)
         IN [state |-> IF res.ret = 0 THEN 0 ELSE IF res.ret > 0 THEN 1 ELSE -1,
             plp |-> res.plp, mplp |-> res.mplp]

\* mplp->ref_idx = mplp->alt_idx = -1 on entry
SnpEnter(m) == [m EXCEPT !.ref_idx = -1, !.alt_idx = -1]

pileup_snp(reads, ps, m, g) ==
    LET acc == SnpReads([st |-> 0, plp |-> ps, npushed |-> 0], reads, 1, g)
    IN IF acc.st < 0 THEN [state |-> -1, plp |-> acc.plp, mplp |-> SnpEnter(m)]
       ELSE SnpFinish(acc.plp, SnpEnter(m), acc.npushed, g)

(***************************************************************************)
(* merge_mtx: the shard files in shard order; k numbers the sites over all *)
(* shards, every data line is copied with k in front.                      *)
(***************************************************************************)
RECURSIVE MergeLines(_, _, _)
MergeLines(lines, j, acc) ==
    IF j > Len(lines) THEN acc
    ELSE IF Len(lines[j].f) = 0
         THEN MergeLines(lines, j + 1, [acc EXCEPT !.k = @ + 1])
         ELSE MergeLines(lines, j + 1,
                         [acc EXCEPT !.out = Append(@, DatLine(<<acc.k>> \o lines[j].f)),
                                     !.m = @ + 1])

RECURSIVE MergeFiles(_, _, _)
MergeFiles(ins, i, acc) ==
    IF i > Len(ins) THEN acc
    ELSE MergeFiles(ins, i + 1,
                    MergeLines(ins[i], 1, acc))

\* mutant: the shards are merged last to first
merge_mtx_reversed(out, ins) ==
    LET rev == [i \in 1..Len(ins) |-> ins[Len(ins) + 1 - i]]
        acc == MergeFiles(rev, 1, [out |-> out, k |-> 1, m |-> 0])
    IN [out |-> acc.out, ns |-> acc.k - 1, nr |-> acc.m, ret |-> 0]

\* mutant: k starts at 1 again in every shard file
merge_mtx_restart(out, ins) ==
    LET f[i \in 0..Len(ins)] ==
            IF i = 0 THEN [out |-> out, k |-> 1, m |-> 0]
            ELSE MergeLines(ins[i], 1, [f[i - 1] EXCEPT !.k = 1])
    IN [out |-> f[Len(ins)].out, ns |-> f[Len(ins)].k - 1, nr |-> f[Len(ins)].m, ret |-> 0]

\* jf_open of the output or of shard file number i fails: ret = -2, the
\* shard files before it have been copied; i = 0 is the output
merge_mtx_fail(out, ins, i) ==
    LET acc == MergeFiles(SubSeq(ins, 1, i - 1), 1, [out |-> out, k |-> 1, m |-> 0])
    IN [out |-> acc.out, ret |-> -2]

\* ins: the shard files in shard order; [out, ns, nr, ret]
merge_mtx(out, ins) ==
    LET acc == MergeFiles(ins, 1, [out |-> out, k |-> 1, m |-> 0])
    IN [out |-> acc.out, ns |-> acc.k - 1, nr |-> acc.m, ret |-> 0]

\* the first n of the files ins copied to out, one after the other
RECURSIVE CopyFiles(_, _, _)
CopyFiles(out, ins, n) ==
    IF n = 0 THEN out ELSE CopyFiles(out, ins, n - 1) \o ins[n]

\* mutant: the shard files are copied last to first
merge_vcf_reversed(out, ins) ==
    [out |-> CopyFiles(out, [i \in 1..Len(ins) |-> ins[Len(ins) + 1 - i]], Len(ins)), ret |-> 0]

\* jf_open of the output or of shard file number i fails: ret = -2, the
\* shard files before it have been copied; i = 0 is the output
merge_vcf_fail(out, ins, i) ==
    [out |-> IF i = 0 THEN out ELSE CopyFiles(out, ins, i - 1), ret |-> -2]

\* ins: the shard files in shard order, copied as they are; [out, ret]
merge_vcf(out, ins) ==
    [out |-> CopyFiles(out, ins, Len(ins)), ret |-> 0]

(***************************************************************************)
(* rewrite_mtx: the '%' lines, the totals line, then the body.             *)
(***************************************************************************)
\* number of leading '%' lines
RECURSIVE PctPrefix(_, _)
PctPrefix(lines, j) ==
    IF j <= Len(lines) /\ lines[j].c = "%" THEN PctPrefix(lines, j + 1) ELSE j - 1

TotalsLine(ns, nsmp, nr) == DatLine(<<ns, nsmp, nr>>)

\* mutant: the line the header loop stopped at is not written back
rewrite_mtx_drop(lines, ns, nsmp, nr) ==
    LET h == PctPrefix(lines, 1)
        eof == h + 1 > Len(lines)
        norec == eof \/ Len(lines[h + 1].f) = 0
        rest == IF eof THEN <<>> ELSE SubSeq(lines, h + 2, Len(lines))
    IN IF norec /\ nr # 0 THEN [ret |-> 1, lines |-> lines]
       ELSE [ret |-> 0, lines |-> SubSeq(lines, 1, h) \o <<TotalsLine(ns, nsmp, nr)>> \o rest]

\* mutant: the buffer is not cleared, the first body line is copied twice
rewrite_mtx_dup(lines, ns, nsmp, nr) ==
    LET h == PctPrefix(lines, 1)
        eof == h + 1 > Len(lines)
        norec == eof \/ Len(lines[h + 1].f) = 0
        first == IF nr # 0 /\ ~eof THEN <<lines[h + 1]>> ELSE <<>>
        rest == IF eof THEN <<>> ELSE SubSeq(lines, h + 1, Len(lines))
    IN IF norec /\ nr # 0 THEN [ret |-> 1, lines |-> lines]
       ELSE [ret |-> 0,
             lines |-> SubSeq(lines, 1, h) \o <<TotalsLine(ns, nsmp, nr)>> \o first \o rest]

\* [ret, lines]: the content of the file at fs->fn afterwards
rewrite_mtx(lines, ns, nsmp, nr) ==
    LET h == PctPrefix(lines, 1)
        \* the line the header loop stopped at is in the buffer, if there is one
        eof == h + 1 > Len(lines)
        norec == eof \/ Len(lines[h + 1].f) = 0
        first == IF nr # 0 /\ ~eof THEN <<lines[h + 1]>> ELSE <<>>
        rest == IF eof THEN <<>> ELSE SubSeq(lines, h + 2, Len(lines))
    IN IF norec /\ nr # 0 THEN [ret |-> 1, lines |-> lines]
       ELSE [ret |-> 0,
             lines |-> SubSeq(lines, 1, h) \o <<TotalsLine(ns, nsmp, nr)>> \o first \o rest]

(***************************************************************************)
(* State.                                                                  *)
(***************************************************************************)
VARIABLES
    gs,      \* global settings
    pc,      \* where csp_pileup is
    ret,     \* what csp_pileup returned (RetNone before it returns)
    td,      \* thread_data of every shard
    tmp,     \* content of the shard temp matrix files
    tmpex,   \* whether the temp files of a shard are on disk
    fin,     \* content of the final matrix files
    order,   \* history: some worker ended before the worker of an earlier shard
    plp,     \* worker 0, push level: the per-cell site state
    mplp,    \* worker 0, push level: the per-site state
    snp,     \* worker 0, push level: where pileup_snp is
    nsites,  \* sites the decoder has yielded so far
    tape,    \* the sites of the input as far as decoded, kept for a rerun
    prev,    \* the final files of the previous run, on a rerun
    rw,      \* rewrite_mtx, step by step: where it is, the sibling file, the paths without a file
    mp,      \* mp_func: what the iterator has left, the read handed over, ret, the reads skipped
    core,    \* csp_pileup_core, resource by resource: its locals and what is held
    vcf,     \* content of the base VCF files: the shard temp files and the final file
    su       \* csp_pileup, multi-thread branch, resource by resource: its locals and what is held

vars == <<gs, pc, ret, td, tmp, tmpex, fin, order, plp, mplp, snp, nsites, tape, prev, rw, mp, core, vcf, su>>

Shards == 0..(NChrom - 1)

RetNone == -9

\* mutant: the number of input files in every mode
nsample_files(g) == g.nin

\* int nsample = use_barcodes(gs) ? gs->nbarcode : gs->nin
nsample(g) == IF use_barcodes(g) THEN g.nbarcode ELSE g.nin

\* calloc'ed thread_data
ThdataInit == [st |-> "none", n |-> 0, m |-> 0, k |-> 0, p |-> 0, ns |-> 0,
               nr_ad |-> 0, nr_dp |-> 0, nr_oth |-> 0, ret |-> 0, is_tmp |-> FALSE]

NoFiles == [kd \in Kinds |-> <<>>]

FinInit == [kd \in Kinds |-> MtxHeader]

\* no record is in hand (b is not filled)
NoRead == [tid |-> -1, flag |-> {}, qual |-> 0]

\* mp_func has not been called: itr is what sam_itr_next is still to yield
MpIdle == [itr |-> <<>>, b |-> NoRead, ret |-> 0, skipped |-> {}, calls |-> 0]

\* csp_pileup_core is not running: its locals as declared (NULL, 0), nothing
\* held; twice is history, the resources released while not held
CoreIdle == [pc |-> "idle", m |-> 0, n |-> 0, w |-> 0, open |-> {}, mplp |-> FALSE,
            bam_fs |-> FALSE, nfs |-> 0, pileup |-> FALSE, data |-> FALSE, ndat |-> 0,
            mp_plp |-> FALSE, mp_n |-> FALSE, i |-> 0, itr |-> {}, col |-> 0, lib |-> FALSE,
            held |-> {}, twice |-> {}, ret |-> 0]

\* the multi-thread branch of csp_pileup is not running: its locals as
\* declared (NULL, 0), nothing held; sets is the number of temp file sets
\* made; twice is history, the resources released while not held; meant
\* is how the statement titer[titer++] = iter is read
SuIdle == [pc |-> "idle", sets |-> 0, tfs |-> FALSE, idx |-> FALSE, titer |-> FALSE,
           td |-> FALSE, ntd |-> 0, ntfs |-> 0, nfs |-> 0, nidx |-> 0, ntiter |-> 0,
           niter |-> 0, nitr |-> 0, held |-> {}, twice |-> {}, early |-> {}, meant |-> FALSE]

\* no base VCF line is written
VcfInit == [tmp |-> [i \in 0..(NChrom - 1) |-> <<>>], fin |-> <<>>]

\* rewrite_mtx is not running: no sibling file, every final path has its file
RwIdle == [pc |-> "idle", kd |-> "ad", new |-> <<>>, gone |-> {}]

\* umis and first are history: the (cell group, UMI) pairs pushed at the site,
\* and for each the base index and quality of the first read that carried it
SnpIdle == [pc |-> "idle", npushed |-> 0, nread |-> 0, col |-> 0, file |-> 0,
            state |-> 0, umis |-> {}, first |-> {}]

(***************************************************************************)
(* Inputs: a read as the pileup hands it over, and the column of a site.   *)
(***************************************************************************)
Rd(file, cb, umi, base, qual, del) ==
    [file |-> file, cb |-> cb, umi |-> umi, base |-> base, qual |-> qual,
     is_del |-> del, is_refskip |-> FALSE, laln |-> 1]

FilesOf(g) == 0..(g.nin - 1)

BarcodesOf(g) == IF use_barcodes(g) THEN 1..UnknownBarcode ELSE {0}

UmisOf(g) == IF use_umi(g) THEN Umis ELSE {0}

\* a read of cell group c: by its barcode, or by the file it comes from
CellRd(g, c, base) ==
    IF use_barcodes(g) THEN Rd(0, c, 0, base, 30, FALSE) ELSE Rd(c - 1, 0, 0, base, 30, FALSE)

\* a read that counts for no cell group: a barcode that is not in the list,
\* or a deletion at the site
LostRd(g) ==
    IF use_barcodes(g) THEN Rd(0, UnknownBarcode, 0, Nt16A, 30, FALSE)
    ELSE Rd(0, 0, 0, Nt16A, 30, TRUE)

\* the columns of the run-level specifications: one cell with the reference
\* only, two cells with two alleles, one cell with two alleles, a base that
\* is neither allele, and a column no read of which counts
RunColumns(g) ==
    {<<CellRd(g, 1, Nt16A)>>,
     <<CellRd(g, 1, Nt16A), CellRd(g, 2, Nt16C)>>,
     <<CellRd(g, 1, Nt16C), CellRd(g, 1, Nt16A)>>,
     <<CellRd(g, 2, Nt16N)>>,
     <<CellRd(g, 1, Nt16G), CellRd(g, 2, Nt16N)>>,
     <<LostRd(g)>>}

(***************************************************************************)
(* Initial states: csp_pileup is entered with settings g.                  *)
(***************************************************************************)
Settings(nthreads, umis, cellmodes, mincounts, mafs) ==
    {[nthread |-> nt, tp |-> TRUE, umi_tag |-> u, cell_tag |-> cm,
      nbarcode |-> IF cm THEN Cardinality(Cells) ELSE 0,
      nsid |-> IF cm THEN 0 ELSE Cardinality(Cells),
      nin |-> IF cm THEN 1 ELSE Cardinality(Cells),
      nchrom |-> NChrom, min_count |-> mc, maf |-> mf, min_len |-> 0,
      is_genotype |-> FALSE, is_target |-> FALSE, pl |-> {},
      min_mapq |-> 0, rflag_filter |-> {}, rflag_require |-> {}, no_orphan |-> FALSE] :
        nt \in nthreads, u \in umis, cm \in cellmodes, mc \in mincounts, mf \in mafs}

InitWith(G, taped) ==
    /\ gs \in G
    /\ pc = "init"
    /\ ret = RetNone
    /\ td = [i \in Shards |-> ThdataInit]
    /\ tmp = [i \in Shards |-> NoFiles]
    /\ tmpex = [i \in Shards |-> FALSE]
    /\ fin = FinInit
    /\ order = FALSE
    /\ plp = csp_mplp_prepare(gs)
    /\ mplp = MplpInit
    /\ snp = SnpIdle
    /\ nsites = 0
    /\ tape = [on |-> taped, sites |-> [c \in Shards |-> <<>>],
               closed |-> [c \in Shards |-> FALSE]]
    /\ prev = [run |-> FALSE, fin |-> FinInit]
    /\ rw = RwIdle
    /\ core = CoreIdle
    /\ su = SuIdle
    /\ vcf = VcfInit
    /\ mp = MpIdle

(***************************************************************************)
(* csp_pileup_core: the chromosome worker of shard i.                      *)
(***************************************************************************)
Running == {i \in Shards : td[i].st = "running"}

\* the worker of shard i ends while that of an earlier shard has not
Overtakes(i) == \E j \in Shards : j < i /\ td[j].st # "done"

\* the decoder: the columns chromosome c may have at position p
Column(c, p, R) ==
    IF tape.on /\ p <= Len(tape.sites[c]) THEN {tape.sites[c][p]} ELSE R

\* the decoder yields column reads at position p of chromosome c
Decode(c, p, reads) ==
    IF tape.on /\ p <= Len(tape.sites[c])
    THEN UNCHANGED <<nsites, tape>>
    ELSE /\ ~tape.closed[c]
         /\ nsites < MaxSites
         /\ nsites' = nsites + 1
         /\ tape' = IF tape.on THEN [tape EXCEPT !.sites[c] = Append(@, reads)] ELSE tape

\* bam_mplp_auto returns 0: the chromosome has no further column
DecodeEnd(c, p) ==
    /\ p > Len(tape.sites[c])
    /\ UNCHANGED nsites
    /\ tape' = IF tape.on THEN [tape EXCEPT !.closed[c] = TRUE] ELSE tape

\* create_tmp_fs: the temp file of shard idx is named "%s.%d" after the
\* final file (here the matrix it is) and idx
create_tmp_fs(kd, idx) == <<kd, idx>>

\* mutant: every worker writes the temp files of shard 0
WrittenShared(i, out) ==
    IF td[i].is_tmp
    THEN /\ tmp' = [tmp EXCEPT ![0] = out]
         /\ UNCHANGED fin
    ELSE /\ fin' = out
         /\ UNCHANGED tmp

\* the output files of a worker: its shard's temp files, or the final files
Written(i, out) ==
    IF td[i].is_tmp
    THEN /\ tmp' = [tmp EXCEPT ![i] = out]
         /\ UNCHANGED fin
    ELSE /\ fin' = out
         /\ UNCHANGED tmp

OutFiles(i) == IF td[i].is_tmp THEN tmp[i] ELSE fin

\* d->ret = -1, the totals zeroed, the outputs opened, mplp prepared
CoreBegin(i) ==
    /\ td[i].st = "queued"
    /\ Cardinality(Running) < gs.nthread
    /\ td' = [td EXCEPT ![i].st = "running", ![i].ret = -1, ![i].k = 0, ![i].p = 0,
                        ![i].ns = 0, ![i].nr_ad = 0, ![i].nr_dp = 0, ![i].nr_oth = 0]
    /\ IF td[i].is_tmp
       THEN /\ tmp' = [tmp EXCEPT ![i] = NoFiles]
            /\ tmpex' = [tmpex EXCEPT ![i] = TRUE]
            /\ vcf' = [vcf EXCEPT !.tmp[i] = <<>>]
       ELSE UNCHANGED <<tmp, tmpex, vcf>>
    /\ UNCHANGED <<gs, pc, ret, fin, order, plp, mplp, snp, nsites, tape, prev, rw, mp, core, su>>

\* jf_puts of the line to d->out_vcf_base: the temp file of the shard, or
\* the final file
VcfWritten(i, line) ==
    vcf' = IF td[i].is_tmp THEN [vcf EXCEPT !.tmp[i] = Append(@, line)]
           ELSE [vcf EXCEPT !.fin = Append(@, line)]

\* d->ns++ and the record totals of an emitted site
CoreCount(d, m) ==
    [d EXCEPT !.ns = @ + 1, !.nr_ad = @ + m.nr_ad, !.nr_dp = @ + m.nr_dp,
              !.nr_oth = @ + m.nr_oth]

\* mutant: each final matrix numbers its rows by itself, the row of a site
\* being the number of sites it holds a line of so far, plus one
CoreWriteOwnRow(out, ps, idx, is_tmp) ==
    [kd \in Kinds |->
        LET rows == {out[kd][j].f[1] : j \in {n \in DOMAIN out[kd] : out[kd][n].c = "d"}}
        IN out[kd] \o csp_mplp_to_mtx(ps, kd, IF is_tmp THEN idx ELSE Cardinality(rows) + 1,
                                       is_tmp)]

\* mutant: the row written is one past d->ns
CoreWriteLate(out, ps, idx, is_tmp) ==
    [kd \in Kinds |-> out[kd] \o csp_mplp_to_mtx(ps, kd, idx + 1, is_tmp)]

\* the lines an emitted site adds to the three matrices
CoreWrite(out, ps, idx, is_tmp) ==
    [kd \in Kinds |-> out[kd] \o csp_mplp_to_mtx(ps, kd, idx, is_tmp)]

\* one column, whole: pileup_snp, then the site is written or dropped, and
\* mplp is reset
\* mutant: a skipped site is counted as a site
CoreSiteSkipCounts(i) ==
    /\ td[i].st = "running"
    /\ td[i].k < td[i].m
    /\ snp.pc = "idle"
    /\ \E reads \in Column(td[i].n + td[i].k, td[i].p + 1, RunColumns(gs)) :
          /\ Decode(td[i].n + td[i].k, td[i].p + 1, reads)
          /\ LET res == pileup_snp(reads, csp_mplp_prepare(gs), MplpInit, gs)
                 d == [td[i] EXCEPT !.p = @ + 1]
             IN IF res.state = 0
                THEN /\ td' = [td EXCEPT ![i] = CoreCount(d, res.mplp)]
                     /\ Written(i, CoreWrite(OutFiles(i), res.plp, d.ns + 1, d.is_tmp))
                     /\ VcfWritten(i, VcfLine(d.n + d.k, td[i].p, res.mplp))
                ELSE /\ td' = [td EXCEPT ![i] = [d EXCEPT !.ns = @ + 1]]
                     /\ UNCHANGED <<tmp, fin, vcf>>
    /\ UNCHANGED <<gs, pc, ret, tmpex, order, plp, mplp, snp, prev, rw, mp, core, su>>

\* one turn of while (bam_mplp_auto(...) > 0): pileup_snp of the column; a
\* site that is not skipped is counted and written
CoreSite(i) ==
    /\ td[i].st = "running"
    /\ td[i].k < td[i].m
    /\ snp.pc = "idle"
    /\ \E reads \in Column(td[i].n + td[i].k, td[i].p + 1, RunColumns(gs)) :
          /\ Decode(td[i].n + td[i].k, td[i].p + 1, reads)
          /\ LET res == pileup_snp(reads, csp_mplp_prepare(gs), MplpInit, gs)
                 d == [td[i] EXCEPT !.p = @ + 1]
             IN IF res.state = 0
                THEN /\ td' = [td EXCEPT ![i] = CoreCount(d, res.mplp)]
                     /\ Written(i, CoreWrite(OutFiles(i), res.plp, d.ns + 1, d.is_tmp))
                     /\ VcfWritten(i, VcfLine(d.n + d.k, td[i].p, res.mplp))
                ELSE /\ td' = [td EXCEPT ![i] = d]
                     /\ UNCHANGED <<tmp, fin, vcf>>
    /\ UNCHANGED <<gs, pc, ret, tmpex, order, plp, mplp, snp, prev, rw, mp, core, su>>

\* the end of a chromosome: the iterators are reset, the next one starts
CoreChromEnd(i) ==
    /\ td[i].st = "running"
    /\ td[i].k < td[i].m
    /\ snp.pc = "idle"
    /\ DecodeEnd(td[i].n + td[i].k, td[i].p + 1)
    /\ td' = [td EXCEPT ![i].k = @ + 1, ![i].p = 0]
    /\ UNCHANGED <<gs, pc, ret, tmp, tmpex, fin, order, plp, mplp, snp, prev, rw, mp, core, vcf, su>>

\* all chromosomes done: the writers are closed, d->ret = 0
CoreEnd(i) ==
    /\ td[i].st = "running"
    /\ td[i].k = td[i].m
    /\ td' = [td EXCEPT ![i].st = "done", ![i].ret = 0]
    /\ order' = (order \/ Overtakes(i))
    /\ UNCHANGED <<gs, pc, ret, tmp, tmpex, fin, plp, mplp, snp, nsites, tape, prev, rw, mp, core, vcf, su>>

\* jf_open of an output fails: goto fail, d->ret stays -1
CoreOpenFail(i) ==
    /\ td[i].st = "queued"
    /\ Cardinality(Running) < gs.nthread
    /\ td' = [td EXCEPT ![i].st = "done", ![i].ret = -1, ![i].ns = 0,
                        ![i].nr_ad = 0, ![i].nr_dp = 0, ![i].nr_oth = 0]
    /\ order' = (order \/ Overtakes(i))
    /\ UNCHANGED <<gs, pc, ret, tmp, tmpex, fin, plp, mplp, snp, nsites, tape, prev, rw, mp, core, vcf, su>>

(***************************************************************************)
(* csp_pileup: the shard scheduler.                                        *)
(***************************************************************************)
\* mutant: every shard is given the whole chromosome list
ShardDataAll(i) == [ThdataInit EXCEPT !.st = "created", !.n = 0, !.m = NChrom, !.is_tmp = TRUE]

\* one thread_data per chromosome: d->n = ntd, d->m = 1, the temp files of
\* shard ntd as outputs
ShardData(i) == [ThdataInit EXCEPT !.st = "created", !.n = i, !.m = 1, !.is_tmp = TRUE]

\* the single thread: chromosomes 0..nchrom-1, the final files as outputs
SingleData(g) == [ThdataInit EXCEPT !.st = "queued", !.n = 0, !.m = g.nchrom]

\* gs->tp && gs->nthread > 1: the temp files are named, the thread_data made
MultiSetup ==
    /\ pc = "init"
    /\ gs.tp /\ gs.nthread > 1
    /\ td' = [i \in Shards |-> ShardData(i)]
    /\ pc' = "submit"
    /\ UNCHANGED <<gs, ret, tmp, tmpex, fin, order, plp, mplp, snp, nsites, tape, prev, rw, mp, core, vcf, su>>

\* mutant: the merge starts when the last shard is submitted
SubmitNoWait(i) ==
    /\ pc = "submit"
    /\ td[i].st = "created"
    /\ \A j \in Shards : j < i => td[j].st # "created"
    /\ td' = [td EXCEPT ![i].st = "queued"]
    /\ pc' = IF i = NChrom - 1 THEN "merge_ad" ELSE "submit"
    /\ UNCHANGED <<gs, ret, tmp, tmpex, fin, order, plp, mplp, snp, nsites, tape, prev, rw, mp, core, vcf, su>>

\* thpool_add_work(gs->tp, csp_pileup_core, td[i])
Submit(i) ==
    /\ pc = "submit"
    /\ td[i].st = "created"
    /\ \A j \in Shards : j < i => td[j].st # "created"
    /\ td' = [td EXCEPT ![i].st = "queued"]
    /\ pc' = IF i = NChrom - 1 THEN "wait" ELSE "submit"
    /\ UNCHANGED <<gs, ret, tmp, tmpex, fin, order, plp, mplp, snp, nsites, tape, prev, rw, mp, core, vcf, su>>

\* mutant: td[i]->ret is not looked at
BarrierIgnoreRet ==
    /\ pc = "wait"
    /\ \A i \in Shards : td[i].st = "done"
    /\ pc' = "merge_ad"
    /\ UNCHANGED <<gs, ret, td, tmp, tmpex, fin, order, plp, mplp, snp, nsites, tape, prev, rw, mp, core, vcf, su>>

\* thpool_wait returned; td[i]->ret of every shard is looked at
Barrier ==
    /\ pc = "wait"
    /\ \A i \in Shards : td[i].st = "done"
    /\ pc' = IF \E i \in Shards : td[i].ret < 0 THEN "fail" ELSE "merge_ad"
    /\ UNCHANGED <<gs, ret, td, tmp, tmpex, fin, order, plp, mplp, snp, nsites, tape, prev, rw, mp, core, vcf, su>>

RECURSIVE SumShards(_, _)
SumShards(f, i) == IF i < 0 THEN 0 ELSE td[i][f] + SumShards(f, i - 1)

NrField(kd) == IF kd = "ad" THEN "nr_ad" ELSE IF kd = "dp" THEN "nr_dp" ELSE "nr_oth"

\* the temp files of one matrix in shard order
ShardFiles(kd) == [i \in 1..NChrom |-> tmp[i - 1][kd]]

\* mutant: what was merged is not compared with the sums
MergeMtxUnchecked(kd, at, next) ==
    /\ pc = at
    /\ LET ns == SumShards("ns", NChrom - 1)
           nr == SumShards(NrField(kd), NChrom - 1)
           res == merge_mtx(Append(fin[kd], TotalsLine(ns, nsample(gs), nr)), ShardFiles(kd))
       IN /\ fin' = [fin EXCEPT ![kd] = res.out]
          /\ pc' = next
    /\ UNCHANGED <<gs, ret, td, tmp, tmpex, order, plp, mplp, snp, nsites, tape, prev, rw, mp, core, vcf, su>>

\* the totals line from the shard sums, merge_mtx, and the comparison of what
\* was merged with the sums
MergeMtx(kd, at, next) ==
    /\ pc = at
    /\ LET ns == SumShards("ns", NChrom - 1)
           nr == SumShards(NrField(kd), NChrom - 1)
           res == merge_mtx(Append(fin[kd], TotalsLine(ns, nsample(gs), nr)), ShardFiles(kd))
       IN /\ fin' = [fin EXCEPT ![kd] = res.out]
          /\ pc' = IF res.ret < 0 \/ res.ns # ns \/ res.nr # nr THEN "fail" ELSE next
    /\ UNCHANGED <<gs, ret, td, tmp, tmpex, order, plp, mplp, snp, nsites, tape, prev, rw, mp, core, vcf, su>>

\* jf_open fails: of the final file before the totals line is written
\* (i = 0), or in merge_mtx of the temp file of shard i - 1; goto fail
MergeMtxFail(kd, at) ==
    /\ pc = at
    /\ \E i \in 0..NChrom :
          LET ns == SumShards("ns", NChrom - 1)
              nr == SumShards(NrField(kd), NChrom - 1)
              res == merge_mtx_fail(Append(fin[kd], TotalsLine(ns, nsample(gs), nr)),
                                    ShardFiles(kd), i)
          IN fin' = IF i = 0 THEN fin ELSE [fin EXCEPT ![kd] = res.out]
    /\ pc' = "fail"
    /\ UNCHANGED <<gs, ret, td, tmp, tmpex, order, plp, mplp, snp, nsites, tape, prev, rw, mp, core, vcf, su>>

\* the base VCF temp files in shard order
ShardVcfs == [i \in 1..NChrom |-> vcf.tmp[i - 1]]

\* jf_open(gs->out_vcf_base), merge_vcf, ret < 0 is fail
MergeVcf ==
    /\ pc = "merge_vcf"
    /\ LET res == merge_vcf(vcf.fin, ShardVcfs)
       IN /\ vcf' = [vcf EXCEPT !.fin = res.out]
          /\ pc' = IF res.ret < 0 THEN "fail" ELSE "clean"
    /\ UNCHANGED <<gs, ret, td, tmp, tmpex, fin, order, plp, mplp, snp, nsites, tape, prev, rw, mp,
                   core, su>>

\* jf_open fails: of the final base VCF (i = 0), or in merge_vcf of the temp
\* file of shard i - 1; goto fail
MergeVcfFail ==
    /\ pc = "merge_vcf"
    /\ \E i \in 0..NChrom : vcf' = [vcf EXCEPT !.fin = merge_vcf_fail(vcf.fin, ShardVcfs, i).out]
    /\ pc' = "fail"
    /\ UNCHANGED <<gs, ret, td, tmp, tmpex, fin, order, plp, mplp, snp, nsites, tape, prev, rw, mp,
                   core, su>>

\* clean: the thread_data freed, the temp files removed; return 0
MultiClean ==
    /\ pc = "clean"
    /\ tmpex' = [i \in Shards |-> FALSE]
    /\ tmp' = [i \in Shards |-> NoFiles]
    /\ vcf' = [vcf EXCEPT !.tmp = VcfInit.tmp]
    /\ pc' = "done"
    /\ ret' = 0
    /\ UNCHANGED <<gs, td, fin, order, plp, mplp, snp, nsites, tape, prev, rw, mp, core, su>>

\* mutant: the failure path leaves the temp files
MultiFailKeep ==
    /\ pc = "fail"
    /\ pc' = "done"
    /\ ret' = -1
    /\ UNCHANGED <<gs, td, tmp, tmpex, fin, order, plp, mplp, snp, nsites, tape, prev, rw, mp, core, vcf, su>>

\* fail: the same releases, destroy_tmp_files included; return -1
MultiFail ==
    /\ pc = "fail"
    /\ tmpex' = [i \in Shards |-> FALSE]
    /\ tmp' = [i \in Shards |-> NoFiles]
    /\ vcf' = [vcf EXCEPT !.tmp = VcfInit.tmp]
    /\ pc' = "done"
    /\ ret' = -1
    /\ UNCHANGED <<gs, td, fin, order, plp, mplp, snp, nsites, tape, prev, rw, mp, core, su>>

\* 1 == gs->nthread: csp_pileup_core(d) is called in place
SingleStart ==
    /\ pc = "init"
    /\ ~(gs.tp /\ gs.nthread > 1)
    /\ gs.nthread = 1
    /\ td' = [td EXCEPT ![0] = SingleData(gs)]
    /\ pc' = "single"
    /\ UNCHANGED <<gs, ret, tmp, tmpex, fin, order, plp, mplp, snp, nsites, tape, prev, rw, mp, core, vcf, su>>

\* mutant: d->ret is not looked at
SingleReturnIgnoreRet ==
    /\ pc = "single"
    /\ td[0].st = "done"
    /\ pc' = "rewrite_ad"
    /\ UNCHANGED <<gs, ret, td, tmp, tmpex, fin, order, plp, mplp, snp, nsites, tape, prev, rw, mp,
                   core, vcf, su>>

\* csp_pileup_core returned: d->ret < 0 is fail1
SingleReturn ==
    /\ pc = "single"
    /\ td[0].st = "done"
    /\ IF td[0].ret < 0
       THEN pc' = "done" /\ ret' = -1
       ELSE pc' = "rewrite_ad" /\ UNCHANGED ret
    /\ UNCHANGED <<gs, td, tmp, tmpex, fin, order, plp, mplp, snp, nsites, tape, prev, rw, mp, core, vcf, su>>

\* rewrite_mtx(gs->out_mtx_*, d->ns, nsample, d->nr_*)
RewriteMtx(kd, at, next) ==
    /\ pc = at
    /\ LET res == rewrite_mtx(fin[kd], td[0].ns, nsample(gs), td[0][NrField(kd)])
       IN /\ fin' = [fin EXCEPT ![kd] = res.lines]
          /\ IF res.ret # 0
             THEN pc' = "done" /\ ret' = -1
             ELSE /\ pc' = next
                  /\ ret' = IF next = "done" THEN 0 ELSE ret
    /\ UNCHANGED <<gs, td, tmp, tmpex, order, plp, mplp, snp, nsites, tape, prev, rw, mp, core, vcf, su>>

(***************************************************************************)
(* The worker of the single thread, read by read: pileup_snp as its steps. *)
(***************************************************************************)
\* a read of cell group c with UMI u (no UMI tag is read without UMI mode)
UmiRd(g, c, base, qual, u) ==
    [CellRd(g, c, base) EXCEPT !.qual = qual, !.umi = IF use_umi(g) THEN u ELSE 0]

\* the reads of the push-level specification: two cell groups, two UMIs, the
\* bases A, G, N with two qualities, and one read for each way a read is
\* refused (no cell group, a deletion, no UMI tag, no barcode tag)
SiteReads(g) ==
    {UmiRd(g, 1, Nt16A, 30, 1), UmiRd(g, 1, Nt16G, 20, 1), UmiRd(g, 1, Nt16A, 30, 2),
     UmiRd(g, 2, Nt16G, 30, 1), UmiRd(g, 2, Nt16N, 20, 2)}
    \cup {[LostRd(g) EXCEPT !.umi = IF use_umi(g) THEN 1 ELSE 0]}
    \cup (IF use_umi(g) THEN {UmiRd(g, 1, Nt16A, 30, 0)} ELSE {})
    \cup (IF use_barcodes(g) THEN {UmiRd(g, 0, Nt16A, 30, 1)} ELSE {})

\* bam_mplp_auto yields a column; pileup_snp is entered
SiteBegin ==
    /\ td[0].st = "running"
    /\ td[0].k < td[0].m
    /\ snp.pc = "idle"
    /\ ~tape.on
    /\ nsites < MaxSites
    /\ nsites' = nsites + 1
    /\ snp' = [snp EXCEPT !.pc = "push"]
    /\ mplp' = SnpEnter(mplp)
    /\ td' = [td EXCEPT ![0].p = @ + 1]
    /\ UNCHANGED <<gs, pc, ret, tmp, tmpex, fin, order, plp, tape, prev, rw, mp, core, vcf, su>>

\* the next read of the column: pileup_read, then csp_mplp_push
SitePush ==
    /\ snp.pc = "push"
    /\ snp.nread < MaxPush
    /\ \E rd \in SiteReads(gs) :
          /\ rd.file >= snp.file
          /\ LET sid == IF use_barcodes(gs) THEN -1 ELSE rd.file
                 res == csp_mplp_push(plp, rd, sid, gs)
                 cu == <<PushCell(rd, sid, gs), rd.umi>>
                 s1 == [snp EXCEPT !.nread = @ + 1, !.col = @ + 1, !.file = rd.file]
             IN IF pileup_read(rd, gs) # 0
                THEN snp' = s1 /\ UNCHANGED plp
                ELSE IF res.r < 0
                THEN snp' = [s1 EXCEPT !.pc = "stat", !.state = -1] /\ UNCHANGED plp
                ELSE IF res.r = 0
                THEN /\ plp' = res.plp
                     /\ snp' = [s1 EXCEPT
                                  !.npushed = @ + 1,
                                  !.umis = @ \cup {cu},
                                  !.first = IF cu \in snp.umis THEN @
                                            ELSE @ \cup {<<cu[1], cu[2],
                                                           seq_nt16_idx2int(rd.base), rd.qual>>}]
                ELSE snp' = s1 /\ UNCHANGED plp
    /\ UNCHANGED <<gs, pc, ret, td, tmp, tmpex, fin, order, mplp, nsites, tape, prev, rw, mp, core, vcf, su>>

\* the column is through: the early check and csp_mplp_stat
SiteStat ==
    /\ snp.pc = "push"
    /\ snp.col >= 1
    /\ LET res == SnpFinish(plp, mplp, snp.npushed, gs)
       IN /\ snp' = [snp EXCEPT !.pc = "stat", !.state = res.state]
          /\ plp' = res.plp
          /\ mplp' = res.mplp
    /\ UNCHANGED <<gs, pc, ret, td, tmp, tmpex, fin, order, nsites, tape, prev, rw, mp, core, vcf, su>>

\* mutant: a site that is skipped is left without the reset
SiteEmitSkipKeeps ==
    /\ snp.pc = "stat"
    /\ IF snp.state < 0
       THEN /\ td' = [td EXCEPT ![0].st = "done"]
            /\ order' = (order \/ Overtakes(0))
            /\ UNCHANGED <<tmp, fin, vcf>>
       ELSE /\ UNCHANGED order
            /\ IF snp.state = 0
               THEN /\ td' = [td EXCEPT ![0] = CoreCount(td[0], mplp)]
                    /\ Written(0, CoreWrite(OutFiles(0), plp, td[0].ns + 1, td[0].is_tmp))
                    /\ VcfWritten(0, VcfLine(td[0].n + td[0].k, td[0].p - 1, mplp))
               ELSE UNCHANGED <<td, tmp, fin, vcf>>
    /\ snp' = [SnpIdle EXCEPT !.nread = snp.nread]
    /\ plp' = IF snp.state > 0 THEN plp ELSE csp_mplp_reset_plp(plp)
    /\ mplp' = IF snp.state > 0 THEN mplp ELSE MplpInit
    /\ UNCHANGED <<gs, pc, ret, tmpex, nsites, tape, prev, rw, mp, core, su>>

\* pileup_snp returned: the site is counted and written, or dropped; mplp is
\* reset; on an error the worker ends with d->ret = -1
SiteEmit ==
    /\ snp.pc = "stat"
    /\ IF snp.state < 0
       THEN /\ td' = [td EXCEPT ![0].st = "done"]
            /\ order' = (order \/ Overtakes(0))
            /\ UNCHANGED <<tmp, fin, vcf>>
       ELSE /\ UNCHANGED order
            /\ IF snp.state = 0
               THEN /\ td' = [td EXCEPT ![0] = CoreCount(td[0], mplp)]
                    /\ Written(0, CoreWrite(OutFiles(0), plp, td[0].ns + 1, td[0].is_tmp))
                    /\ VcfWritten(0, VcfLine(td[0].n + td[0].k, td[0].p - 1, mplp))
               ELSE UNCHANGED <<td, tmp, fin, vcf>>
    /\ snp' = [SnpIdle EXCEPT !.nread = snp.nread]
    /\ plp' = csp_mplp_reset_plp(plp)
    /\ mplp' = MplpInit
    /\ UNCHANGED <<gs, pc, ret, tmpex, nsites, tape, prev, rw, mp, core, su>>

Merge ==
    \/ MergeMtx("ad", "merge_ad", "merge_dp")
    \/ MergeMtx("dp", "merge_dp", "merge_oth")
    \/ MergeMtx("oth", "merge_oth", "merge_vcf")
    \/ MergeVcf

Rewrite ==
    \/ RewriteMtx("ad", "rewrite_ad", "rewrite_dp")
    \/ RewriteMtx("dp", "rewrite_dp", "rewrite_oth")
    \/ RewriteMtx("oth", "rewrite_oth", "done")

Worker ==
    \E i \in Shards : CoreBegin(i) \/ CoreSite(i) \/ CoreChromEnd(i) \/ CoreEnd(i) \/ CoreOpenFail(i)

Scheduler ==
    \/ MultiSetup
    \/ \E i \in Shards : Submit(i)
    \/ Barrier
    \/ Merge
    \/ MultiClean
    \/ MultiFail
    \/ SingleStart
    \/ SingleReturn
    \/ Rewrite

Next == Scheduler \/ Worker

\* the run-level settings: both paths, both cell modes
RunSettings == Settings({1, 2}, {FALSE}, BOOLEAN, {0, 1}, {0})

Init == InitWith(RunSettings, FALSE)

Spec == Init /\ [][Next]_vars

(***************************************************************************)
(* A rerun: the same input and settings, first with one thread, then with  *)
(* two.                                                                     *)
(***************************************************************************)
Rerun ==
    /\ pc = "done"
    /\ ret = 0
    /\ ~prev.run
    /\ gs.nthread = 1
    /\ prev' = [run |-> TRUE, fin |-> fin]
    /\ gs' = [gs EXCEPT !.nthread = 2]
    /\ pc' = "init"
    /\ ret' = RetNone
    /\ td' = [i \in Shards |-> ThdataInit]
    /\ tmp' = [i \in Shards |-> NoFiles]
    /\ tmpex' = [i \in Shards |-> FALSE]
    /\ fin' = FinInit
    /\ vcf' = VcfInit
    /\ order' = FALSE
    /\ UNCHANGED <<plp, mplp, snp, nsites, tape, rw, mp, core, su>>

\* the rerun: barcode mode
RerunSettings == Settings({1}, {FALSE}, {TRUE}, {1}, {0})

InitRerun == InitWith(RerunSettings, TRUE)

NextRerun == Next \/ Rerun

SpecRerun == InitRerun /\ [][NextRerun]_vars

\* the push-level specification: the single thread over every setting of the
\* aggregation
SiteSettings == Settings({1}, BOOLEAN, BOOLEAN, 0..MaxMinCount, MafNums)

InitSite == InitWith(SiteSettings, FALSE)

NextSite ==
    \/ SingleStart
    \/ CoreBegin(0)
    \/ SiteBegin
    \/ SitePush
    \/ SiteStat
    \/ SiteEmit
    \/ CoreChromEnd(0)
    \/ CoreEnd(0)

SpecSite == InitSite /\ [][NextSite]_vars

(***************************************************************************)
(* csp_mplp_stat on its own: the caller has pushed the reads of a site and *)
(* may have set ref_idx and alt_idx from the record of the site in its     *)
(* SNP list.                                                               *)
(***************************************************************************)
\* a record of the SNP list: the site and its two alleles (-1: not given)
Snp(chrom, pos, ref, alt) == [chrom |-> chrom, pos |-> pos, ref |-> ref, alt |-> alt]

\* the pair the SNP list gives for a site, (-1, -1) when it has none
SeedOf(g, chrom, pos) ==
    IF g.is_target /\ \E r \in g.pl : r.chrom = chrom /\ r.pos = pos
    THEN LET r == CHOOSE r \in g.pl : r.chrom = chrom /\ r.pos = pos
         IN [ref |-> r.ref, alt |-> r.alt]
    ELSE [ref |-> -1, alt |-> -1]

\* the columns csp_mplp_stat is called on: those of the run, and four reads
\* with A and one with G over two cell groups
StatColumns(g) ==
    RunColumns(g) \cup
    {<<CellRd(g, 1, Nt16A), CellRd(g, 1, Nt16A), CellRd(g, 1, Nt16A),
       CellRd(g, 2, Nt16A), CellRd(g, 2, Nt16G)>>}

\* the pairs a caller sets: none, C/G, A/G, G/A, and the alternate only
StatLists ==
    {{}} \cup {{Snp(0, 1, pr[1], pr[2])} : pr \in {<<1, 2>>, <<0, 2>>, <<2, 0>>, <<-1, 2>>}}

StatSettings ==
    {[g EXCEPT !.is_target = (l # {}), !.pl = l] :
        g \in Settings({1}, {FALSE}, BOOLEAN, 0..1, MafNums), l \in StatLists}

InitStat ==
    /\ gs \in StatSettings
    /\ pc = "single"
    /\ ret = RetNone
    /\ td = [i \in Shards |-> IF i = 0 THEN [SingleData(gs) EXCEPT !.st = "running", !.p = 1]
                                     ELSE ThdataInit]
    /\ tmp = [i \in Shards |-> NoFiles]
    /\ tmpex = [i \in Shards |-> FALSE]
    /\ fin = FinInit
    /\ order = FALSE
    /\ \E reads \in StatColumns(gs) :
          LET acc == SnpReads([st |-> 0, plp |-> csp_mplp_prepare(gs), npushed |-> 0],
                              reads, 1, gs)
          IN /\ plp = acc.plp
             /\ snp = [SnpIdle EXCEPT !.pc = "push", !.npushed = acc.npushed,
                                      !.nread = Len(reads), !.col = Len(reads)]
    /\ mplp = [MplpInit EXCEPT !.ref_idx = SeedOf(gs, 0, 1).ref,
                               !.alt_idx = SeedOf(gs, 0, 1).alt]
    /\ nsites = 1
    /\ tape = [on |-> FALSE, sites |-> [c \in Shards |-> <<>>],
               closed |-> [c \in Shards |-> FALSE]]
    /\ prev = [run |-> FALSE, fin |-> FinInit]
    /\ rw = RwIdle
    /\ core = CoreIdle
    /\ su = SuIdle
    /\ vcf = VcfInit
    /\ mp = MpIdle

\* ret = csp_mplp_stat(mplp, gs)
StatCall ==
    /\ snp.pc = "push"
    /\ LET res == csp_mplp_stat(plp, mplp, gs)
       IN /\ snp' = [snp EXCEPT !.pc = "stat",
                                !.state = IF res.ret = 0 THEN 0 ELSE IF res.ret > 0 THEN 1 ELSE -1]
          /\ plp' = res.plp
          /\ mplp' = res.mplp
    /\ UNCHANGED <<gs, pc, ret, td, tmp, tmpex, fin, order, nsites, tape, prev, rw, mp, core, vcf, su>>

NextStat == StatCall

SpecStat == InitStat /\ [][NextStat]_vars

(***************************************************************************)
(* csp_pileup entered with a SNP list in the settings (is_target set):     *)
(* csp_pileup_core and pileup_snp are the same code, neither reads gs->pl. *)
(***************************************************************************)
\* the SNP list of the target runs: chromosome 0, position 1, C/G
TargetLists == {{Snp(0, 1, 1, 2)}}

TargetSettings ==
    {[g EXCEPT !.is_target = TRUE, !.pl = l] :
        g \in Settings({1}, {FALSE}, {TRUE}, {1}, MafNums), l \in TargetLists}

InitTarget == InitWith(TargetSettings, FALSE)

SpecTarget == InitTarget /\ [][NextSite]_vars

(***************************************************************************)
(* The merge on its own: csp_pileup at thpool_wait, every worker ended.    *)
(* A worker does not check its writes (jf_printf, jf_putc), so a line     *)
(* it counted may be missing from its temp file.                           *)
(***************************************************************************)
\* the columns a shard has gone through: a cell with the reference only,
\* two cells with two alleles
MergeRuns(g) ==
    LET a == <<CellRd(g, 1, Nt16A)>>
        b == <<CellRd(g, 1, Nt16A), CellRd(g, 2, Nt16C)>>
    IN {<<>>, <<a>>, <<b>>, <<a, b>>, <<b, a>>}

\* csp_pileup_core over the columns cols[j..]: acc is [d, out, vcf]
RECURSIVE CoreRun(_, _, _, _)
CoreRun(g, cols, j, acc) ==
    IF j > Len(cols) THEN acc
    ELSE LET res == pileup_snp(cols[j], csp_mplp_prepare(g), MplpInit, g)
         IN IF res.state = 0
            THEN CoreRun(g, cols, j + 1,
                          [d |-> CoreCount(acc.d, res.mplp),
                           out |-> CoreWrite(acc.out, res.plp, acc.d.ns + 1, acc.d.is_tmp),
                           vcf |-> Append(acc.vcf, VcfLine(acc.d.n, j - 1, res.mplp))])
            ELSE CoreRun(g, cols, j + 1, acc)

\* the writes that may be lost: none, the last line of the AD file (the end
\* of a site), the line before the last of the DP file (a record)
LostWrites == {[kd |-> "none", back |-> 0], [kd |-> "ad", back |-> 0], [kd |-> "dp", back |-> 1]}

\* the temp files with the write w lost
Lose(out, w) ==
    IF w.kd \in Kinds /\ Len(out[w.kd]) > w.back /\ out[w.kd][Len(out[w.kd]) - w.back].c = "d"
    THEN LET lines == out[w.kd]
             j == Len(lines) - w.back
         IN [out EXCEPT ![w.kd] = SubSeq(lines, 1, j - 1) \o SubSeq(lines, j + 1, Len(lines))]
    ELSE out

\* how a worker may have ended: the columns it went through and the write
\* that was lost, or (ok false) a failure before any temp file was made
MergeChoices(g) ==
    {[cols |-> cols, w |-> w, ok |-> TRUE] : cols \in MergeRuns(g), w \in LostWrites}
    \cup {[cols |-> <<>>, w |-> [kd |-> "none", back |-> 0], ok |-> FALSE]}

\* the worker of shard i ended as c says: ret = 0 with its totals and its
\* temp files, or ret = -1 without temp files
ShardOutcome(g, i, c) ==
    IF c.ok
    THEN LET acc == CoreRun(g, c.cols, 1,
                            [d |-> [ShardData(i) EXCEPT !.ret = -1], out |-> NoFiles,
                             vcf |-> <<>>])
         IN [d |-> [acc.d EXCEPT !.st = "done", !.ret = 0, !.k = 1, !.p = Len(c.cols)],
             out |-> Lose(acc.out, c.w), vcf |-> acc.vcf, ex |-> TRUE]
    ELSE [d |-> [ShardData(i) EXCEPT !.st = "done", !.ret = -1], out |-> NoFiles, vcf |-> <<>>,
          ex |-> FALSE]

MergeSettings == Settings({2}, {FALSE}, {TRUE}, {1}, {0})

InitMerge ==
    /\ gs \in MergeSettings
    /\ pc = "wait"
    /\ ret = RetNone
    /\ \E c \in [Shards -> MergeChoices(gs)] :
          \E o \in {[i \in Shards |-> ShardOutcome(gs, i, c[i])]} :
             /\ td = [i \in Shards |-> o[i].d]
             /\ tmp = [i \in Shards |-> o[i].out]
             /\ tmpex = [i \in Shards |-> o[i].ex]
             /\ vcf = [tmp |-> [i \in Shards |-> o[i].vcf], fin |-> <<>>]
    /\ fin = FinInit
    /\ order = FALSE
    /\ plp = csp_mplp_prepare(gs)
    /\ mplp = MplpInit
    /\ snp = SnpIdle
    /\ nsites = 0
    /\ tape = [on |-> FALSE, sites |-> [c \in Shards |-> <<>>],
               closed |-> [c \in Shards |-> FALSE]]
    /\ prev = [run |-> FALSE, fin |-> FinInit]
    /\ rw = RwIdle
    /\ core = CoreIdle
    /\ su = SuIdle
    /\ mp = MpIdle

MergeFail ==
    \/ MergeMtxFail("ad", "merge_ad")
    \/ MergeMtxFail("dp", "merge_dp")
    \/ MergeMtxFail("oth", "merge_oth")
    \/ MergeVcfFail

NextMerge ==
    \/ Barrier
    \/ Merge
    \/ MergeFail
    \/ MultiClean
    \/ MultiFail

SpecMerge == InitMerge /\ [][NextMerge]_vars

(***************************************************************************)
(* rewrite_mtx step by step, in the single-thread path: the copy into the  *)
(* sibling file fs->fn.0, jf_remove of the final file, rename.             *)
(***************************************************************************)
\* how the single worker may have ended with ret = 0: its totals and the
\* final files as it left them
SingleOutcomes(g) ==
    {LET acc == CoreRun(g, cols, 1, [d |-> [SingleData(g) EXCEPT !.ret = -1], out |-> FinInit,
                                 vcf |-> <<>>])
     IN [d |-> [acc.d EXCEPT !.st = "done", !.ret = 0, !.k = g.nchrom, !.p = 0],
         out |-> Lose(acc.out, w), vcf |-> acc.vcf] :
        cols \in MergeRuns(g), w \in LostWrites}

RewriteSettings == Settings({1}, {FALSE}, BOOLEAN, {1}, {0})

InitRewrite ==
    /\ gs \in RewriteSettings
    /\ pc = "rewrite_ad"
    /\ ret = RetNone
    /\ \E o \in SingleOutcomes(gs) :
          /\ td = [i \in Shards |-> IF i = 0 THEN o.d ELSE ThdataInit]
          /\ fin = o.out
          /\ vcf = [VcfInit EXCEPT !.fin = o.vcf]
    /\ tmp = [i \in Shards |-> NoFiles]
    /\ tmpex = [i \in Shards |-> FALSE]
    /\ order = FALSE
    /\ plp = csp_mplp_prepare(gs)
    /\ mplp = MplpInit
    /\ snp = SnpIdle
    /\ nsites = 0
    /\ tape = [on |-> FALSE, sites |-> [c \in Shards |-> <<>>],
               closed |-> [c \in Shards |-> FALSE]]
    /\ prev = [run |-> FALSE, fin |-> FinInit]
    /\ rw = RwIdle
    /\ core = CoreIdle
    /\ su = SuIdle
    /\ mp = MpIdle

\* the matrix the scheduler is to rewrite
RewriteKinds == {<<"ad", "rewrite_ad", "rewrite_dp">>, <<"dp", "rewrite_dp", "rewrite_oth">>,
                 <<"oth", "rewrite_oth", "done">>}

\* rewrite_mtx is entered: create_tmp_fs, fs opened for reading, the sibling
\* for writing (it is on disk, empty)
RwOpen ==
    /\ rw.pc = "idle"
    /\ \E t \in RewriteKinds :
          /\ pc = t[2]
          /\ rw' = [rw EXCEPT !.pc = "copy", !.kd = t[1], !.new = <<>>]
    /\ UNCHANGED <<gs, pc, ret, td, tmp, tmpex, fin, order, plp, mplp, snp, nsites, tape, prev, mp, core, vcf, su>>

\* the '%' lines, the totals line and the body are written to the sibling;
\* no record although nr != 0: ret = 1, goto fail, csp_pileup returns -1
RwCopy ==
    /\ rw.pc = "copy"
    /\ LET res == rewrite_mtx(fin[rw.kd], td[0].ns, nsample(gs), td[0][NrField(rw.kd)])
       IN IF res.ret # 0
          THEN /\ rw' = [rw EXCEPT !.pc = "idle"]
               /\ pc' = "done"
               /\ ret' = -1
          ELSE /\ rw' = [rw EXCEPT !.pc = "copied", !.new = res.lines]
               /\ UNCHANGED <<pc, ret>>
    /\ UNCHANGED <<gs, td, tmp, tmpex, fin, order, plp, mplp, snp, nsites, tape, prev, mp, core, vcf, su>>

\* jf_write is short while the body is streamed: goto fail, ret = -1
RwWriteFail ==
    /\ rw.pc = "copy"
    /\ LET res == rewrite_mtx(fin[rw.kd], td[0].ns, nsample(gs), td[0][NrField(rw.kd)])
       IN /\ res.ret = 0
          /\ rw' = [rw EXCEPT !.pc = "idle", !.new = SubSeq(res.lines, 1, Len(res.lines) - 1)]
    /\ pc' = "done"
    /\ ret' = -1
    /\ UNCHANGED <<gs, td, tmp, tmpex, fin, order, plp, mplp, snp, nsites, tape, prev, mp, core, vcf, su>>

\* jf_close(fs); jf_close(new); jf_remove(fs): no file at the final path
RwRemove ==
    /\ rw.pc = "copied"
    /\ rw' = [rw EXCEPT !.pc = "removed", !.gone = @ \cup {rw.kd}]
    /\ UNCHANGED <<gs, pc, ret, td, tmp, tmpex, fin, order, plp, mplp, snp, nsites, tape, prev, mp, core, vcf, su>>

\* rename(new->fn, fs->fn) == 0: the sibling is the final file; return 0
RwRename ==
    /\ rw.pc = "removed"
    /\ fin' = [fin EXCEPT ![rw.kd] = rw.new]
    /\ rw' = [rw EXCEPT !.pc = "idle", !.new = <<>>, !.gone = @ \ {rw.kd}]
    /\ \E t \in RewriteKinds :
          /\ t[1] = rw.kd
          /\ pc' = t[3]
          /\ ret' = IF t[3] = "done" THEN 0 ELSE ret
    /\ UNCHANGED <<gs, td, tmp, tmpex, order, plp, mplp, snp, nsites, tape, prev, mp, core, vcf, su>>

\* rename(new->fn, fs->fn) != 0: goto fail, ret = -1; the final file has
\* been removed, the sibling stays
RwRenameFail ==
    /\ rw.pc = "removed"
    /\ rw' = [rw EXCEPT !.pc = "idle"]
    /\ pc' = "done"
    /\ ret' = -1
    /\ UNCHANGED <<gs, td, tmp, tmpex, fin, order, plp, mplp, snp, nsites, tape, prev, mp, core, vcf, su>>

NextRewrite ==
    \/ RwOpen
    \/ RwCopy
    \/ RwWriteFail
    \/ RwRemove
    \/ RwRename
    \/ RwRenameFail

SpecRewrite == InitRewrite /\ [][NextRewrite]_vars

(***************************************************************************)
(* mp_func: the reads bam_mplp_auto is given. A flag word is the set of    *)
(* its bits, a mask likewise: x & y is the intersection, 0 the empty set.  *)
(***************************************************************************)
BAM_FPAIRED == 1

BAM_FPROPER_PAIR == 2

BAM_FUNMAP == 4

BAM_FDUP == 1024

MaxItr == 2

BamRd(tid, flag, qual) == [tid |-> tid, flag |-> flag, qual |-> qual]

\* c->tid < 0 || c->flag & BAM_FUNMAP
UnmappedSkip(b) == b.tid < 0 \/ BAM_FUNMAP \in b.flag

\* mutant: the mapping quality is not looked at
MapqSkipNever(b, g) == FALSE

\* c->qual < gs->min_mapq
MapqSkip(b, g) == b.qual < g.min_mapq

\* gs->rflag_filter && gs->rflag_filter & c->flag
FilterSkip(b, g) == g.rflag_filter # {} /\ g.rflag_filter \cap b.flag # {}

\* mutant: a read that lacks one of the bits is skipped
RequireSkipUnlessAll(b, g) == ~(g.rflag_require \subseteq b.flag)

\* gs->rflag_require && !(gs->rflag_require & c->flag)
RequireSkip(b, g) == g.rflag_require # {} /\ g.rflag_require \cap b.flag = {}

\* gs->no_orphan && c->flag & BAM_FPAIRED && !(c->flag & BAM_FPROPER_PAIR)
OrphanSkip(b, g) == g.no_orphan /\ BAM_FPAIRED \in b.flag /\ BAM_FPROPER_PAIR \notin b.flag

\* the record is passed over (continue)
MpSkip(b, g) ==
    UnmappedSkip(b) \/ MapqSkip(b, g) \/ FilterSkip(b, g) \/ RequireSkip(b, g) \/ OrphanSkip(b, g)

\* the loop of mp_func over the records itr[j..]: the first one that is not
\* passed over is handed over with ret = 0; at the end of the iterator ret
\* is -1 and b is the last record read
RECURSIVE mp_func(_, _, _, _)
mp_func(itr, j, g, acc) ==
    IF j > Len(itr) THEN [acc EXCEPT !.itr = <<>>, !.ret = -1]
    ELSE IF MpSkip(itr[j], g)
         THEN mp_func(itr, j + 1, g, [acc EXCEPT !.b = itr[j], !.skipped = @ \cup {itr[j]}])
         ELSE [acc EXCEPT !.itr = SubSeq(itr, j + 1, Len(itr)), !.b = itr[j], !.ret = 0]

\* the records of the read-filter specification: unpaired, paired, a proper
\* pair, a duplicate of a proper pair, unmapped, no reference, low quality
FilterReads ==
    {BamRd(0, {}, 30), BamRd(0, {BAM_FPAIRED}, 30),
     BamRd(0, {BAM_FPAIRED, BAM_FPROPER_PAIR}, 30),
     BamRd(0, {BAM_FPAIRED, BAM_FPROPER_PAIR, BAM_FDUP}, 30),
     BamRd(0, {BAM_FPAIRED, BAM_FUNMAP}, 30), BamRd(-1, {BAM_FPAIRED}, 30),
     BamRd(0, {BAM_FPAIRED}, 10)}

Iterators == UNION {[1..n -> FilterReads] : n \in 0..MaxItr}

FilterSettings ==
    {[g EXCEPT !.min_mapq = q, !.rflag_filter = f, !.rflag_require = r, !.no_orphan = o] :
        g \in Settings({1}, {FALSE}, {TRUE}, {1}, {0}),
        q \in {0, 20}, f \in {{}, {BAM_FDUP}},
        r \in {{}, {BAM_FPAIRED}, {BAM_FPAIRED, BAM_FPROPER_PAIR}}, o \in BOOLEAN}

InitFilter ==
    /\ gs \in FilterSettings
    /\ pc = "single"
    /\ ret = RetNone
    /\ td = [i \in Shards |-> IF i = 0 THEN [SingleData(gs) EXCEPT !.st = "running"]
                                      ELSE ThdataInit]
    /\ tmp = [i \in Shards |-> NoFiles]
    /\ tmpex = [i \in Shards |-> FALSE]
    /\ fin = FinInit
    /\ order = FALSE
    /\ plp = csp_mplp_prepare(gs)
    /\ mplp = MplpInit
    /\ snp = SnpIdle
    /\ nsites = 0
    /\ tape = [on |-> FALSE, sites |-> [c \in Shards |-> <<>>],
               closed |-> [c \in Shards |-> FALSE]]
    /\ prev = [run |-> FALSE, fin |-> FinInit]
    /\ rw = RwIdle
    /\ core = CoreIdle
    /\ su = SuIdle
    /\ vcf = VcfInit
    /\ \E itr \in Iterators : mp = [MpIdle EXCEPT !.itr = itr]

\* bam_mplp_auto asks for the next read: mp_func(data, b)
MpFunc ==
    /\ mp.ret >= 0
    /\ mp' = mp_func(mp.itr, 1, gs, [mp EXCEPT !.skipped = {}, !.calls = @ + 1])
    /\ UNCHANGED <<gs, pc, ret, td, tmp, tmpex, fin, order, plp, mplp, snp, nsites, tape, prev, rw, core, vcf, su>>

NextFilter == MpFunc

SpecFilter == InitFilter /\ [][NextFilter]_vars

(***************************************************************************)
(* One read of a column: pileup_read, then csp_mplp_push, in pileup_snp.   *)
(* snp.rd is the read bam_mplp_auto has handed over.                       *)
(***************************************************************************)
\* the reads of the one-read specification: with and without the tags, a
\* barcode in the list or not, a deletion, a reference skip, short and long
ReadInputs(g) ==
    {[Rd(f, cb, u, b, 30, del) EXCEPT !.is_refskip = skip, !.laln = l] :
        f \in FilesOf(g),
        cb \in IF use_barcodes(g) THEN 0..UnknownBarcode ELSE {0},
        u \in IF use_umi(g) THEN {0} \cup Umis ELSE {0},
        b \in {Nt16A, Nt16G}, del \in BOOLEAN, skip \in BOOLEAN, l \in {1, 3}}

ReadSettings ==
    {[g EXCEPT !.min_len = l] : g \in Settings({1}, BOOLEAN, BOOLEAN, {1}, {0}), l \in {0, 2}}

\* pileup_snp is in its loop: some reads of the column have been pushed
InitRead ==
    /\ gs \in ReadSettings
    /\ pc = "single"
    /\ ret = RetNone
    /\ td = [i \in Shards |-> IF i = 0 THEN [SingleData(gs) EXCEPT !.st = "running", !.p = 1]
                                      ELSE ThdataInit]
    /\ tmp = [i \in Shards |-> NoFiles]
    /\ tmpex = [i \in Shards |-> FALSE]
    /\ fin = FinInit
    /\ order = FALSE
    /\ \E n \in 0..2, rd \in ReadInputs(gs) :
          LET reads == SubSeq(<<UmiRd(gs, 1, Nt16A, 30, 1), UmiRd(gs, 2, Nt16G, 30, 1)>>, 1, n)
              acc == SnpReads([st |-> 0, plp |-> csp_mplp_prepare([gs EXCEPT !.min_len = 0]),
                               npushed |-> 0], reads, 1, [gs EXCEPT !.min_len = 0])
          IN /\ plp = acc.plp
             /\ snp = ("rd" :> rd) @@ [SnpIdle EXCEPT !.pc = "push", !.npushed = acc.npushed,
                                                      !.nread = n, !.col = n]
    /\ mplp = MplpInit
    /\ nsites = 1
    /\ tape = [on |-> FALSE, sites |-> [c \in Shards |-> <<>>],
               closed |-> [c \in Shards |-> FALSE]]
    /\ prev = [run |-> FALSE, fin |-> FinInit]
    /\ rw = RwIdle
    /\ core = CoreIdle
    /\ su = SuIdle
    /\ vcf = VcfInit
    /\ mp = MpIdle

\* the body of the loop of pileup_snp for the read in hand
ReadPush ==
    /\ snp.pc = "push"
    /\ LET rd == snp.rd
           sid == IF use_barcodes(gs) THEN -1 ELSE rd.file
           res == csp_mplp_push(plp, rd, sid, gs)
           s1 == [snp EXCEPT !.pc = "pushed", !.nread = @ + 1, !.col = @ + 1]
       IN IF pileup_read(rd, gs) # 0
          THEN snp' = s1 /\ UNCHANGED plp
          ELSE IF res.r < 0
          THEN snp' = [s1 EXCEPT !.pc = "stat", !.state = -1] /\ UNCHANGED plp
          ELSE IF res.r = 0
          THEN plp' = res.plp /\ snp' = [s1 EXCEPT !.npushed = @ + 1]
          ELSE snp' = s1 /\ UNCHANGED plp
    /\ UNCHANGED <<gs, pc, ret, td, tmp, tmpex, fin, order, mplp, nsites, tape, prev, rw, mp, core, vcf, su>>

SpecRead == InitRead /\ [][ReadPush]_vars

(***************************************************************************)
(* csp_pileup_core, resource by resource: what it acquires, in the order   *)
(* of the code, each acquisition a point where it may fail, and what the   *)
(* two ways out (the return after the loop, the fail block) release.  A    *)
(* resource is <<kind, file, chromosome>>.                                 *)
(***************************************************************************)
Writers(g) ==
    <<"mtx_ad", "mtx_dp", "mtx_oth", "vcf_base">>
        \o (IF g.is_genotype THEN <<"vcf_cells">> ELSE <<>>)

Acq(c, S) == [c EXCEPT !.held = @ \cup S]

Rel(c, S) == [c EXCEPT !.held = @ \ S, !.twice = @ \cup (S \ c.held)]

\* jf_close of every writer that jf_isopen
CloseOut(c) == [Rel(c, {<<"writer", w, 0>> : w \in c.open}) EXCEPT !.open = {}]

\* mp_aux_destroy(data[i]) for i < ndat, then free(data): an iterator that
\* data[i]->itr still points at is destroyed with it
DestroyData(c) ==
    [Rel(c, {<<"aux", f, 0>> : f \in 0..(c.ndat - 1)}
            \cup {<<"itr", x[1], x[2]>> : x \in c.itr} \cup {<<"data", 0, 0>>})
        EXCEPT !.itr = {}]

\* hts_close(bam_fs[i]->fp) and free(bam_fs[i]) for i < nfs, then free(bam_fs)
CloseBamFs(c) ==
    Rel(c, {<<"fp", f, 0>> : f \in 0..(c.nfs - 1)} \cup {<<"bs", f, 0>> : f \in 0..(c.nfs - 1)}
           \cup {<<"bam_fs", 0, 0>>})

\* the fail block: each release is guarded by the local that holds the
\* resource; d->ret stays -1
CoreFailBlock(c) ==
    LET c1 == CloseOut(c)
        c2 == IF c1.data THEN DestroyData(c1) ELSE c1
        c3 == Rel(c2, (IF c2.mp_plp THEN {<<"mp_plp", 0, 0>>} ELSE {})
                      \cup (IF c2.mp_n THEN {<<"mp_n", 0, 0>>} ELSE {})
                      \cup (IF c2.pileup THEN {<<"pileup", 0, 0>>} ELSE {}))
        c4 == IF c3.bam_fs THEN CloseBamFs(c3) ELSE c3
        c5 == IF c4.mplp THEN Rel(c4, {<<"mplp", 0, 0>>}) ELSE c4
    IN [c5 EXCEPT !.pc = "ret"]

\* the way out after the loop: the same releases, unguarded; d->ret = 0.
\* mp_iter is not destroyed (bam_mplp_destroy is commented out)
CoreReturnBlock(c) ==
    LET c1 == CloseOut(c)
        c2 == DestroyData(c1)
        c3 == Rel(c2, {<<"mp_plp", 0, 0>>, <<"mp_n", 0, 0>>, <<"pileup", 0, 0>>})
        c4 == CloseBamFs(c3)
        c5 == Rel(c4, {<<"mplp", 0, 0>>})
    IN [c5 EXCEPT !.pc = "ret", !.ret = 0]

CoreFrame ==
    UNCHANGED <<gs, pc, ret, td, tmp, tmpex, fin, order, plp, mplp, snp, nsites, tape, prev,
                rw, mp, vcf, su>>

\* jf_open(d->out_*): the three matrices, the base VCF, the cells VCF when
\* gs->is_genotype
CoreOpenOut ==
    /\ core.pc = "open"
    /\ \E ok \in BOOLEAN :
          LET w == core.w + 1
              c == [Acq(core, {<<"writer", w, 0>>}) EXCEPT !.open = @ \cup {w}, !.w = w]
          IN core' = IF ~ok THEN CoreFailBlock(core)
                     ELSE [c EXCEPT !.pc = IF w = Len(Writers(gs)) THEN "mplp" ELSE "open"]
    /\ CoreFrame

\* csp_mplp_init, csp_mplp_prepare
CoreMplpInit ==
    /\ core.pc = "mplp"
    /\ \E o \in {"ok", "init", "prepare"} :
          LET c == [Acq(core, {<<"mplp", 0, 0>>}) EXCEPT !.mplp = TRUE]
          IN core' = IF o = "init" THEN CoreFailBlock(core)
                     ELSE IF o = "prepare" THEN CoreFailBlock(c)
                     ELSE [c EXCEPT !.pc = "bam_fs"]
    /\ CoreFrame

\* bam_fs = calloc(gs->nin, ...)
CoreBamFs ==
    /\ core.pc = "bam_fs"
    /\ \E ok \in BOOLEAN :
          core' = IF ~ok THEN CoreFailBlock(core)
                  ELSE [Acq(core, {<<"bam_fs", 0, 0>>}) EXCEPT !.bam_fs = TRUE, !.pc = "bs"]
    /\ CoreFrame

\* one turn of the loop over the input files: bs = csp_bam_fs_init(),
\* bs->fp = hts_open(...), bam_fs[nfs] = bs
CoreBamOpen ==
    /\ core.pc = "bs"
    /\ \E o \in {"ok", "init", "open"} :
          LET b == Acq(core, {<<"bs", core.nfs, 0>>})
              c == [Acq(b, {<<"fp", core.nfs, 0>>}) EXCEPT !.nfs = @ + 1]
          IN core' = IF o = "init" THEN CoreFailBlock(core)
                     ELSE IF o = "open" THEN CoreFailBlock(b)
                     ELSE [c EXCEPT !.pc = IF c.nfs = gs.nin THEN "pileup" ELSE "bs"]
    /\ CoreFrame

\* pileup = csp_pileup_init()
CorePileupInit ==
    /\ core.pc = "pileup"
    /\ \E ok \in BOOLEAN :
          core' = IF ~ok THEN CoreFailBlock(core)
                  ELSE [Acq(core, {<<"pileup", 0, 0>>}) EXCEPT !.pileup = TRUE, !.pc = "data"]
    /\ CoreFrame

\* data = malloc(nfs * ...)
CoreData ==
    /\ core.pc = "data"
    /\ \E ok \in BOOLEAN :
          core' = IF ~ok THEN CoreFailBlock(core)
                  ELSE [Acq(core, {<<"data", 0, 0>>}) EXCEPT !.data = TRUE, !.pc = "aux"]
    /\ CoreFrame

\* data[ndat] = mp_aux_init(), for ndat < nfs
CoreAux ==
    /\ core.pc = "aux"
    /\ \E ok \in BOOLEAN :
          LET c == [Acq(core, {<<"aux", core.ndat, 0>>}) EXCEPT !.ndat = @ + 1]
          IN core' = IF ~ok THEN CoreFailBlock(core)
                     ELSE [c EXCEPT !.pc = IF c.ndat = c.nfs THEN "bufs" ELSE "aux"]
    /\ CoreFrame

\* mp_plp = calloc(...), mp_n = calloc(...)
CoreBufs ==
    /\ core.pc = "bufs"
    /\ \E o \in {"ok", "mp_plp", "mp_n"} :
          LET b == [Acq(core, {<<"mp_plp", 0, 0>>}) EXCEPT !.mp_plp = TRUE]
              c == [Acq(b, {<<"mp_n", 0, 0>>}) EXCEPT !.mp_n = TRUE]
          IN core' = IF o = "mp_plp" THEN CoreFailBlock(core)
                     ELSE IF o = "mp_n" THEN CoreFailBlock(b)
                     ELSE [c EXCEPT !.pc = "itr", !.i = 0]
    /\ CoreFrame

\* chromosome n, file i: csp_fmt_chr_name, data[i]->itr = sam_itr_querys(...)
CoreItr ==
    /\ core.pc = "itr"
    /\ \E ok \in BOOLEAN :
          LET c == [Acq(core, {<<"itr", core.i, core.n>>})
                       EXCEPT !.itr = @ \cup {<<core.i, core.n>>}, !.i = @ + 1]
          IN core' = IF ~ok THEN CoreFailBlock(core)
                     ELSE [c EXCEPT !.pc = IF c.i = c.ndat THEN "mp_iter" ELSE "itr"]
    /\ CoreFrame

\* mp_iter = bam_mplp_init(nfs, mp_func, data)
CoreMpIter ==
    /\ core.pc = "mp_iter"
    /\ \E ok \in BOOLEAN :
          core' = IF ~ok THEN CoreFailBlock(core)
                  ELSE [Acq(core, {<<"mp_iter", 0, core.n>>}) EXCEPT !.pc = "auto", !.col = 0]
    /\ CoreFrame

\* what the library does with mp_iter when bam_mplp_auto has ended: nothing,
\* or (as the comment in the code takes it) it frees it
LibFree(c) == IF c.lib THEN Rel(c, {<<"mp_iter", 0, c.n>>}) ELSE c

\* mp_aux_reset(data[i]) for i < ndat, n++, and the test of the loop
CoreNextChrom(c) ==
    LET c1 == [Rel(c, {<<"itr", x[1], x[2]>> : x \in c.itr}) EXCEPT !.itr = {}, !.n = @ + 1]
    IN [c1 EXCEPT !.pc = IF c1.n < c1.m THEN "itr" ELSE "exit", !.i = 0]

\* one turn of while (bam_mplp_auto(...) > 0): a column (pileup_snp returns
\* 0 or more, or less than 0), tid < 0, the end of the chromosome, an error
CoreAuto ==
    /\ core.pc = "auto"
    /\ \E o \in {"column", "snp_fail", "tid", "end", "error"} :
          core' = CASE o = "column" -> [core EXCEPT !.col = @ + 1]
                    [] o = "snp_fail" -> CoreFailBlock(core)
                    [] o = "tid" -> CoreNextChrom(core)
                    [] o = "end" -> CoreNextChrom(LibFree(core))
                    [] o = "error" -> CoreFailBlock(LibFree(core))
    /\ core'.col <= MaxSites
    /\ CoreFrame

\* after the loop: everything is released, d->ret = 0
CoreReturn ==
    /\ core.pc = "exit"
    /\ core' = CoreReturnBlock(core)
    /\ CoreFrame

CoreSettings ==
    {[g EXCEPT !.is_genotype = ig] : g \in Settings({1}, {FALSE}, BOOLEAN, {1}, {0}), ig \in BOOLEAN}

InitCore ==
    /\ gs \in CoreSettings
    /\ pc = "single"
    /\ ret = RetNone
    /\ td = [i \in Shards |-> ThdataInit]
    /\ tmp = [i \in Shards |-> NoFiles]
    /\ tmpex = [i \in Shards |-> FALSE]
    /\ fin = FinInit
    /\ order = FALSE
    /\ plp = csp_mplp_prepare(gs)
    /\ mplp = MplpInit
    /\ snp = SnpIdle
    /\ nsites = 0
    /\ tape = [on |-> FALSE, sites |-> [c \in Shards |-> <<>>],
               closed |-> [c \in Shards |-> FALSE]]
    /\ prev = [run |-> FALSE, fin |-> FinInit]
    /\ rw = RwIdle
    /\ mp = MpIdle
    /\ vcf = VcfInit
    /\ su = SuIdle
    /\ \E m \in {1, gs.nchrom}, lib \in BOOLEAN :
          core = [CoreIdle EXCEPT !.pc = "open", !.m = m, !.lib = lib, !.ret = -1]

NextCore ==
    \/ CoreOpenOut
    \/ CoreMplpInit
    \/ CoreBamFs
    \/ CoreBamOpen
    \/ CorePileupInit
    \/ CoreData
    \/ CoreAux
    \/ CoreBufs
    \/ CoreItr
    \/ CoreMpIter
    \/ CoreAuto
    \/ CoreReturn

SpecCore == InitCore /\ [][NextCore]_vars

\* the worker at both levels: the runs with their sites (a run with one
\* thread, then with two), and the worker resource by resource
InitWorker == InitRerun \/ InitCore

NextWorker == NextRerun \/ NextCore

SpecWorker == InitWorker /\ [][NextWorker]_vars

(***************************************************************************)
(* What csp_pileup returns: the run with every way a step of it may fail   *)
(* (the setup of either path, a worker, a merge, rewrite_mtx), from its    *)
(* entry, from thpool_wait with workers whose writes were lost, and from   *)
(* the first rewrite_mtx.                                                  *)
(***************************************************************************)
\* the setup fails (create_tmp_files, calloc, thdata_init, hts_open, ...):
\* goto fail on the multi-thread path, goto fail1 on the other
SetupFail ==
    /\ pc = "init"
    /\ IF gs.tp /\ gs.nthread > 1
       THEN pc' = "fail" /\ UNCHANGED ret
       ELSE gs.nthread = 1 /\ pc' = "done" /\ ret' = -1
    /\ UNCHANGED <<gs, td, tmp, tmpex, fin, order, plp, mplp, snp, nsites, tape, prev, rw, mp,
                   core, vcf, su>>

ReturnSettings == Settings({1, 2}, {FALSE}, {TRUE}, {1}, {0})

InitReturn == InitWith(ReturnSettings, FALSE) \/ InitMerge \/ InitRewrite

NextReturn ==
    \/ Next
    \/ SetupFail
    \/ MergeFail
    \/ NextRewrite

SpecReturn == InitReturn /\ [][NextReturn]_vars

(***************************************************************************)
(* csp_pileup, the multi-thread branch resource by resource: what the      *)
(* setup acquires for every shard, in the order of the code, each          *)
(* acquisition a point where it may fail, and what the two ways out (the   *)
(* clean block, the fail block) release.  A resource is <<kind, shard,     *)
(* file>>.  The workers run as in the run-level model.                     *)
(***************************************************************************)
\* csp_bam_fs_destroy(tfs[i][j]): p->idx is NULL here (the indexes are kept
\* in idx[]), sam_hdr_destroy(p->hdr), hts_close(p->fp), free(p); p->hdr of
\* every shard is the header shard 0 read for file j
csp_bam_fs_destroy(c, i, j) ==
    Rel(Rel(c, {<<"hdr", 0, j>>}), {<<"fp", i, j>>, <<"bs", i, j>>})

RECURSIVE DestroyFs(_, _, _)
\* for (j = 0; j < nfs; j++) { csp_bam_fs_destroy(tfs[i][j]); }
DestroyFs(c, i, j) ==
    IF j >= c.nfs THEN c ELSE DestroyFs(csp_bam_fs_destroy(c, i, j), i, j + 1)

RECURSIVE DestroyTfs(_, _)
\* for (i = 0; i < ntfs; i++) { ...; free(tfs[i]); } free(tfs)
DestroyTfs(c, i) ==
    IF i >= c.ntfs THEN [Rel(c, {<<"tfs", 0, 0>>}) EXCEPT !.tfs = FALSE]
    ELSE DestroyTfs(Rel(DestroyFs(c, i, 0), {<<"bam_fs", i, 0>>}), i + 1)

\* for i < ntiter, j < niter, k < nitr: hts_itr_destroy(titer[i][j][k]);
\* free(titer[i][j]); free(titer[i]); then free(titer)
DestroyTiter(c) ==
    LET I == 0..(c.ntiter - 1)
        inner == IF c.niter > 0
                 THEN {<<"itr", i, k>> : i \in I, k \in 0..(c.nitr - 1)}
                          \cup {<<"itrs", i, 0>> : i \in I}
                 ELSE {}
    IN [Rel(c, inner \cup {<<"iter", i, 0>> : i \in I} \cup {<<"titer", 0, 0>>})
           EXCEPT !.titer = FALSE]

\* for (i = 0; i < mtd; i++) { thdata_destroy(td[i]); } free(td): td[i] is
\* set for i < ntd, NULL beyond
DestroyTd(c) ==
    [Rel(c, {<<"d", i, 0>> : i \in 0..(c.ntd - 1)} \cup {<<"tds", 0, 0>>}) EXCEPT !.td = FALSE]

\* for (i = 0; i < nidx; i++) { hts_idx_destroy(idx[i]); } free(idx); idx = NULL
DestroyIdx(c) ==
    [Rel(c, {<<"idx", 0, f>> : f \in 0..(c.nidx - 1)} \cup {<<"idxs", 0, 0>>})
        EXCEPT !.idx = FALSE]

\* the clean block (561-576): the releases, unguarded
SuCleanBlock(c) == [DestroyTfs(DestroyTiter(DestroyTd(c)), 0) EXCEPT !.pc = "ret"]

\* the fail block (596-621): each release guarded by its array pointer
SuFailBlock(c) ==
    LET c1 == IF c.td THEN DestroyTd(c) ELSE c
        c2 == IF c1.idx THEN DestroyIdx(c1) ELSE c1
        c3 == IF c2.titer THEN DestroyTiter(c2) ELSE c2
        c4 == IF c3.tfs THEN DestroyTfs(c3, 0) ELSE c3
    IN [c4 EXCEPT !.pc = "ret"]

SuFrame ==
    UNCHANGED <<gs, ret, td, tmp, tmpex, fin, order, plp, mplp, snp, nsites, tape, prev, rw,
                mp, core, vcf>>

\* the step leaves the setup as c: it goes on, or it is a goto fail
SuStep(c, ok) ==
    /\ su' = c
    /\ pc' = IF ok THEN "setup" ELSE "fail"

\* create_tmp_files for the three matrices, the base VCF, the cells VCF
\* when gs->is_genotype: k of the sets are made
SuTmpFiles ==
    /\ pc = "init"
    /\ gs.tp /\ gs.nthread > 1
    /\ \E k \in 0..Len(Writers(gs)) :
          SuStep([su EXCEPT !.sets = k, !.pc = "arrays"], k = Len(Writers(gs)))
    /\ SuFrame

\* tfs, idx, titer, td = calloc(...): n of the four are made
SuArrays ==
    /\ pc = "setup"
    /\ su.pc = "arrays"
    /\ \E n \in 0..4 :
          LET names == <<"tfs", "idxs", "titer", "tds">>
              c == [Acq(su, {<<names[k], 0, 0>> : k \in 1..n})
                       EXCEPT !.tfs = n >= 1, !.idx = n >= 2, !.titer = n >= 3, !.td = n >= 4]
          IN SuStep([c EXCEPT !.pc = "thdata"], n = 4)
    /\ SuFrame

\* for (; ntd < mtd; ntd++): d = thdata_init(), bam_fs = calloc(...)
SuThdata ==
    /\ pc = "setup"
    /\ su.pc = "thdata"
    /\ su.ntd < gs.nchrom
    /\ \E o \in {"ok", "d", "bam_fs"} :
          LET b == Acq(su, {<<"d", su.ntd, 0>>})
              c == [Acq(b, {<<"bam_fs", su.ntd, 0>>}) EXCEPT !.nfs = 0, !.pc = "bs"]
          IN CASE o = "d" -> SuStep(su, FALSE)
               [] o = "bam_fs" -> SuStep(b, FALSE)
               [] o = "ok" -> SuStep(c, TRUE)
    /\ SuFrame

\* one turn of the loop over the input files: bs = csp_bam_fs_init(),
\* bs->fp = hts_open(...), for shard 0 bs->hdr = sam_hdr_read(...) and
\* idx[nidx++] = sam_idx_load(...), for the others bs->hdr = tfs[0][nfs]->hdr,
\* bam_fs[nfs++] = bs; after the last file tfs[ntfs++] = bam_fs
SuBamOpen ==
    /\ pc = "setup"
    /\ su.pc = "bs"
    /\ \E o \in {"ok", "init", "open"} \cup (IF su.ntd = 0 THEN {"hdr", "idx"} ELSE {}) :
          LET f == su.nfs
              b1 == Acq(su, {<<"bs", su.ntd, f>>})
              b2 == Acq(b1, {<<"fp", su.ntd, f>>})
              b3 == IF su.ntd = 0 THEN Acq(b2, {<<"hdr", 0, f>>}) ELSE b2
              b4 == IF su.ntd = 0 THEN [Acq(b3, {<<"idx", 0, f>>}) EXCEPT !.nidx = @ + 1]
                    ELSE b3
              b5 == [b4 EXCEPT !.nfs = @ + 1]
              c == IF b5.nfs = gs.nin THEN [b5 EXCEPT !.ntfs = @ + 1, !.pc = "iter"] ELSE b5
          IN CASE o = "init" -> SuStep(su, FALSE)
               [] o = "open" -> SuStep(b1, FALSE)
               [] o = "hdr" -> SuStep(b2, FALSE)
               [] o = "idx" -> SuStep(b3, FALSE)
               [] o = "ok" -> SuStep(c, TRUE)
    /\ SuFrame

\* iter = calloc(d->m, ...), niter = 0, itr = calloc(gs->nin, ...), nitr = 0
SuIter ==
    /\ pc = "setup"
    /\ su.pc = "iter"
    /\ \E o \in {"ok", "iter", "itr"} :
          LET b == [Acq(su, {<<"iter", su.ntd, 0>>}) EXCEPT !.niter = 0]
              c == [Acq(b, {<<"itrs", su.ntd, 0>>}) EXCEPT !.nitr = 0, !.pc = "querys"]
          IN CASE o = "iter" -> SuStep(su, FALSE)
               [] o = "itr" -> SuStep(b, FALSE)
               [] o = "ok" -> SuStep(c, TRUE)
    /\ SuFrame

\* csp_fmt_chr_name, itr[nitr] = sam_itr_querys(...), nitr++; after the last
\* file iter[niter] = itr, niter++ (d->m is 1), titer[titer++] = iter (read
\* as titer[ntiter++] = iter when meant, as leaving ntiter alone when not),
\* td[ntd] = d, ntd++
SuQuerys ==
    /\ pc = "setup"
    /\ su.pc = "querys"
    /\ \E ok \in BOOLEAN :
          LET b == [Acq(su, {<<"itr", su.ntd, su.nitr>>}) EXCEPT !.nitr = @ + 1]
              c == IF b.nitr = gs.nin
                   THEN [b EXCEPT !.niter = 1, !.ntiter = IF b.meant THEN @ + 1 ELSE @,
                                  !.ntd = @ + 1, !.pc = "thdata"]
                   ELSE b
          IN SuStep(IF ok THEN c ELSE su, ok)
    /\ SuFrame

\* after the loop: the indexes are destroyed, idx = NULL; the thread_data
\* are as MultiSetup leaves them
SuIdxClean ==
    /\ pc = "setup"
    /\ su.pc = "thdata"
    /\ su.ntd = gs.nchrom
    /\ su' = [DestroyIdx(su) EXCEPT !.pc = "run"]
    /\ td' = [i \in Shards |-> ShardData(i)]
    /\ pc' = "submit"
    /\ UNCHANGED <<gs, ret, tmp, tmpex, fin, order, plp, mplp, snp, nsites, tape, prev, rw, mp,
                   core, vcf>>

\* thpool_add_work(gs->tp, csp_pileup_core, td[i]) < 0: goto fail
SubmitFail(i) ==
    /\ pc = "submit"
    /\ td[i].st = "created"
    /\ \A j \in Shards : j < i => td[j].st # "created"
    /\ pc' = "fail"
    /\ UNCHANGED <<gs, ret, td, tmp, tmpex, fin, order, plp, mplp, snp, nsites, tape, prev, rw,
                   mp, core, vcf, su>>

\* the shards whose worker is in the pool and has not ended
InPool == {i \in Shards : td[i].st \in {"queued", "running"}}

\* clean (561-594): the releases, destroy_tmp_files; return 0
SuClean ==
    /\ pc = "clean"
    /\ su' = [SuCleanBlock(su) EXCEPT !.early = InPool]
    /\ tmpex' = [i \in Shards |-> FALSE]
    /\ tmp' = [i \in Shards |-> NoFiles]
    /\ vcf' = [vcf EXCEPT !.tmp = VcfInit.tmp]
    /\ pc' = "done"
    /\ ret' = 0
    /\ UNCHANGED <<gs, td, fin, order, plp, mplp, snp, nsites, tape, prev, rw, mp, core>>

\* fail (595-642): the guarded releases, destroy_tmp_files of the sets that
\* were made; return -1.  early is history: the shards whose worker was in
\* the pool when this ran
SuFail ==
    /\ pc = "fail"
    /\ su' = [SuFailBlock(su) EXCEPT !.early = InPool]
    /\ tmpex' = [i \in Shards |-> FALSE]
    /\ tmp' = [i \in Shards |-> NoFiles]
    /\ vcf' = [vcf EXCEPT !.tmp = VcfInit.tmp]
    /\ pc' = "done"
    /\ ret' = -1
    /\ UNCHANGED <<gs, td, fin, order, plp, mplp, snp, nsites, tape, prev, rw, mp, core>>

\* neither gs->tp && gs->nthread > 1 nor 1 == gs->nthread: "do nothing",
\* and the function falls to clean: return 0
NoPath ==
    /\ pc = "init"
    /\ ~(gs.tp /\ gs.nthread > 1)
    /\ gs.nthread # 1
    /\ pc' = "done"
    /\ ret' = 0
    /\ UNCHANGED <<gs, td, tmp, tmpex, fin, order, plp, mplp, snp, nsites, tape, prev, rw, mp,
                   core, vcf, su>>

\* the settings csp_pileup may be called with: the pool made or not, the
\* number of threads 0, 1 or 2
SetupSettings ==
    {[g EXCEPT !.tp = t] : g \in Settings({0, 1, 2}, {FALSE}, BOOLEAN, {1}, {0}), t \in BOOLEAN}

InitSetup ==
    /\ gs \in SetupSettings
    /\ pc = "init"
    /\ ret = RetNone
    /\ td = [i \in Shards |-> ThdataInit]
    /\ tmp = [i \in Shards |-> NoFiles]
    /\ tmpex = [i \in Shards |-> FALSE]
    /\ fin = FinInit
    /\ order = FALSE
    /\ plp = csp_mplp_prepare(gs)
    /\ mplp = MplpInit
    /\ snp = SnpIdle
    /\ nsites = 0
    /\ tape = [on |-> FALSE, sites |-> [c \in Shards |-> <<>>],
               closed |-> [c \in Shards |-> FALSE]]
    /\ prev = [run |-> FALSE, fin |-> FinInit]
    /\ rw = RwIdle
    /\ core = CoreIdle
    /\ vcf = VcfInit
    /\ mp = MpIdle
    /\ \E m \in BOOLEAN : su = [SuIdle EXCEPT !.meant = m]

\* the workers, as long as csp_pileup has not returned
SuWorker == pc # "done" /\ Worker

NextSetup ==
    \/ SuTmpFiles
    \/ SuArrays
    \/ SuThdata
    \/ SuBamOpen
    \/ SuIter
    \/ SuQuerys
    \/ SuIdxClean
    \/ \E i \in Shards : Submit(i) \/ SubmitFail(i)
    \/ SuWorker
    \/ Barrier
    \/ Merge
    \/ SuClean
    \/ SuFail
    \/ SingleStart
    \/ SingleReturn
    \/ Rewrite
    \/ NoPath

SpecSetup == InitSetup /\ [][NextSetup]_vars

(***************************************************************************)
(* Reading the matrix files back.                                          *)
(***************************************************************************)
\* csp_pileup returned 0
Done == pc = "done" /\ ret = 0

\* the totals line of a final matrix: NUM_SITES, NUM_CELLS, NUM_RECORDS
Totals(kd) == fin[kd][Len(MtxHeader) + 1].f

NumSites(kd) == Totals(kd)[1]

NumCells(kd) == Totals(kd)[2]

NumRecords(kd) == Totals(kd)[3]

\* the body of a final matrix: the lines after the totals line
Body(kd) == SubSeq(fin[kd], Len(MtxHeader) + 2, Len(fin[kd]))

\* the lines of a file that hold a cell
CellLines(lines) == {j \in DOMAIN lines : lines[j].c = "d" /\ Len(lines[j].f) > 0}

\* the empty lines of a temp file: one for each site
SiteEnds(lines) == {j \in DOMAIN lines : lines[j].c = "d" /\ Len(lines[j].f) = 0}

\* the largest row index of a body, 0 when it has no line
MaxRow(lines) ==
    IF lines = <<>> THEN 0
    ELSE CHOOSE r \in {lines[j].f[1] : j \in DOMAIN lines} :
            \A j \in DOMAIN lines : lines[j].f[1] <= r

\* sites the shards before shard i have emitted, by the workers' own counts
SitesBefore(i) == SumTo([j \in Shards |-> IF j < i THEN td[j].ns ELSE 0], NChrom - 1)

\* the site a line of a shard temp file belongs to, within the shard
SiteInShard(lines, j) == Cardinality({e \in SiteEnds(lines) : e < j}) + 1

\* the rows shard i contributes to a merged matrix
ShardRows(kd, i) ==
    LET lines == tmp[i][kd]
        at == [n \in 1..Cardinality(CellLines(lines)) |->
                  CHOOSE j \in CellLines(lines) :
                      Cardinality({e \in CellLines(lines) : e < j}) = n - 1]
    IN [n \in DOMAIN at |->
           DatLine(<<SitesBefore(i) + SiteInShard(lines, at[n])>> \o lines[at[n]].f)]

RECURSIVE RowsFrom(_, _)
RowsFrom(kd, i) == IF i >= NChrom THEN <<>> ELSE ShardRows(kd, i) \o RowsFrom(kd, i + 1)

\* the counted observations of the site in hand: per cell group, and summed
CellTotal(c) == Sum5(plp[c].bc)

SiteBc == StatBc(plp, 1, ZeroBc)

SiteTotal == Sum5(SiteBc)

\* pileup_snp has returned for the site in hand, without an error
Judged == snp.pc = "stat" /\ snp.state >= 0

Emitted == snp.pc = "stat" /\ snp.state = 0

(***************************************************************************)
(* C1: on the multi-thread path, whatever the order in which the workers   *)
(* end, each merged matrix lists the rows of shard i before those of shard *)
(* j for i < j, and its rows are numbered 1, 2, ... in that order: the     *)
(* g-th site of shard i has the row (sites of the shards before i) + g.    *)
(***************************************************************************)
C1_MergeInShardOrder ==
    pc = "clean" =>
        \A kd \in Kinds :
            /\ Body(kd) = RowsFrom(kd, 0)
            /\ \A j \in 1..(Len(Body(kd)) - 1) : Body(kd)[j].f[1] <= Body(kd)[j + 1].f[1]

\* a later shard's worker ended first, and both shards have rows in AD
C1_Witness ==
    /\ pc = "clean"
    /\ order
    /\ \A i \in Shards : i <= 1 => CellLines(tmp[i]["ad"]) # {}
    /\ td[0].st = "done" /\ td[1].st = "done"

(***************************************************************************)
(* C2: for the same input and settings the single-thread path and the      *)
(* multi-thread path leave the same AD, DP and OTH files, totals line and  *)
(* body alike.                                                             *)
(***************************************************************************)
C2_PathsAgree == (Done /\ prev.run) => fin = prev.fin

\* both runs are through, and the input had sites on two chromosomes
C2_Witness ==
    /\ Done /\ prev.run
    /\ gs.nthread = 2
    /\ Len(tape.sites[0]) > 0 /\ Len(tape.sites[1]) > 0
    /\ Len(Body("ad")) > 0
    /\ NumSites("ad") >= 2

(***************************************************************************)
(* C3: NUM_RECORDS of a final matrix is the number of lines of its body;   *)
(* the counters of a worker count the cells it has written, which are the  *)
(* cell groups with a nonzero value at the sites it emitted.               *)
(***************************************************************************)
C3_RecordsAreBodyLines ==
    /\ Done => \A kd \in Kinds : NumRecords(kd) = Len(Body(kd))
    /\ \A i \in Shards :
           td[i].st \in {"running", "done"} /\ (IF td[i].is_tmp THEN tmpex[i] ELSE pc = "single") =>
               /\ td[i][NrField("ad")] = Cardinality(CellLines(OutFiles(i)["ad"]))
               /\ td[i][NrField("dp")] = Cardinality(CellLines(OutFiles(i)["dp"]))
               /\ td[i][NrField("oth")] = Cardinality(CellLines(OutFiles(i)["oth"]))

\* a run is through whose last site has a cell group without alternate allele
C3_Witness ==
    /\ Done
    /\ NumRecords("dp") >= 2
    /\ NumRecords("ad") >= 1
    /\ NumRecords("ad") < NumRecords("dp")
    /\ NumRecords("oth") >= 1

(***************************************************************************)
(* C4, as stated: the largest row index in the body of a final matrix      *)
(* equals NUM_SITES, also when the last emitted site has no nonzero cell   *)
(* in that matrix.                                                         *)
(***************************************************************************)
C4_MaxRowIsNumSites == Done => \A kd \in Kinds : MaxRow(Body(kd)) = NumSites(kd)

\* the last shard that emitted a site, 0 when none did
LastShard ==
    IF \A i \in Shards : td[i].ns = 0 THEN 0
    ELSE CHOOSE i \in Shards : td[i].ns > 0 /\ \A j \in Shards : j > i => td[j].ns = 0

\* the last site of the last shard has left a cell in its temp file of kd
LastSiteHasCell(kd) ==
    LET lines == tmp[LastShard][kd]
    IN Len(lines) >= 2 /\ Len(lines[Len(lines) - 1].f) > 0

(***************************************************************************)
(* C4, amended: every row index of a final matrix is within 1..NUM_SITES,  *)
(* NUM_SITES is the same in the three matrices, and the largest row index  *)
(* equals NUM_SITES exactly when the last emitted site has a cell with a   *)
(* nonzero value in that matrix (or no site was emitted).                  *)
(***************************************************************************)
C4_MaxRowWithinNumSites ==
    /\ Done =>
          /\ \A kd \in Kinds :
                 /\ MaxRow(Body(kd)) <= NumSites(kd)
                 /\ \A j \in DOMAIN Body(kd) : Body(kd)[j].f[1] >= 1
          /\ NumSites("ad") = NumSites("dp") /\ NumSites("dp") = NumSites("oth")
    /\ pc = "clean" =>
          \A kd \in Kinds :
              MaxRow(Body(kd)) = NumSites(kd) <=> (NumSites(kd) = 0 \/ LastSiteHasCell(kd))

\* the last emitted site has lines in DP and none in AD
C4_Witness ==
    /\ Done
    /\ NumSites("ad") >= 1
    /\ MaxRow(Body("ad")) < NumSites("ad")
    /\ MaxRow(Body("dp")) = NumSites("dp")

C7_CountsAddUp ==
    Emitted =>
        /\ mplp.tc = Sum5(mplp.bc)
        /\ mplp.tc = SumTo([c \in 0..Len(plp) |-> IF c = 0 THEN 0 ELSE plp[c].tc], Len(plp))
        /\ mplp.bc[mplp.ref_idx] + mplp.bc[mplp.alt_idx] + mplp.oth = mplp.tc
        /\ mplp.ad <= mplp.dp /\ mplp.dp <= mplp.tc
        /\ mplp.ad >= 0 /\ mplp.oth >= 0
        /\ \A c \in DOMAIN plp :
               /\ plp[c].tc = Sum5(plp[c].bc)
               /\ plp[c].bc[mplp.ref_idx] + plp[c].bc[mplp.alt_idx] + plp[c].oth = plp[c].tc
               /\ plp[c].ad <= plp[c].dp /\ plp[c].dp <= plp[c].tc
               /\ plp[c].ad >= 0 /\ plp[c].oth >= 0

\* a site is emitted with a cell group that has only the alternate allele
\* and a base that is neither allele
C7_Witness ==
    /\ Emitted
    /\ mplp.oth > 0
    /\ \E c \in DOMAIN plp : plp[c].ad > 0 /\ plp[c].ad = plp[c].dp

(***************************************************************************)
(* C8: with UMIs, the total of a cell group at a site is the number of     *)
(* distinct UMIs pushed for it; of the reads of one UMI the base and the   *)
(* quality of the first are the ones counted; dp of a cell group is at     *)
(* most its number of distinct UMIs.                                       *)
(***************************************************************************)
C8_OnePerUmi ==
    use_umi(gs) /\ snp.pc \in {"push", "stat"} =>
        \A c \in DOMAIN plp :
            /\ CellTotal(c) = Cardinality({u \in snp.umis : u[1] = c})
            /\ \A b \in Bases :
                   /\ plp[c].bc[b] =
                          Cardinality({e \in snp.first : e[1] = c /\ e[3] = b})
                   /\ Len(plp[c].qu[b]) = plp[c].bc[b]
                   /\ \A q \in Quals :
                          Cardinality({k \in DOMAIN plp[c].qu[b] : plp[c].qu[b][k] = q}) =
                          Cardinality({e \in snp.first : e[1] = c /\ e[3] = b /\ e[4] = q})
            /\ Emitted => plp[c].dp <= Cardinality({u \in snp.umis : u[1] = c})

\* a site is emitted at which a UMI came twice, the second time with another
\* base than the first
C8_Witness ==
    /\ use_umi(gs)
    /\ Emitted
    /\ snp.npushed > Cardinality(snp.umis)
    /\ snp.col = 2
    /\ plp[1].bc[0] = 1 /\ plp[1].bc[2] = 0
    /\ SiteTotal = 1

(***************************************************************************)
(* C9: without an error a site is emitted exactly when its counted         *)
(* observations tc reach min_count and bc[inf_aid] >= tc * min_maf; the    *)
(* early check on the pushed reads skips no site that csp_mplp_stat would  *)
(* emit.                                                                   *)
(***************************************************************************)
C9_EmittedIffThresholds ==
    Judged =>
        (snp.state = 0 <=>
            /\ SiteTotal >= gs.min_count
            /\ SiteBc[infer_allele(SiteBc).aid] * MafDen >= SiteTotal * gs.maf)

\* the pushed reads pass the early check, the counted observations do not
\* reach min_count
C9_Witness ==
    /\ Judged
    /\ snp.state = 1
    /\ snp.npushed >= gs.min_count
    /\ SiteTotal < gs.min_count
    /\ SiteTotal >= 1

(***************************************************************************)
(* C10: a site with tc < 1 is skipped, whatever min_count is, 0 included.  *)
(***************************************************************************)
C10_EmptySiteSkipped == (Judged /\ SiteTotal < 1) => snp.state = 1

(***************************************************************************)
(* C11: csp_mplp_stat reports the pair the caller has set when it has set  *)
(* both alleles, and the inferred pair otherwise; ad, dp and oth, of the   *)
(* site and of every cell group, are counted against the reported pair.    *)
(***************************************************************************)
C11_ReportedPair ==
    Emitted =>
        LET seed == SeedOf(gs, 0, 1)
            inf == infer_allele(SiteBc)
        IN /\ mplp.inf_rid = inf.rid /\ mplp.inf_aid = inf.aid
           /\ IF seed.ref >= 0 /\ seed.alt >= 0
              THEN mplp.ref_idx = seed.ref /\ mplp.alt_idx = seed.alt
              ELSE mplp.ref_idx = inf.rid /\ mplp.alt_idx = inf.aid
           /\ mplp.ad = SiteBc[mplp.alt_idx]
           /\ mplp.dp = SiteBc[mplp.ref_idx] + SiteBc[mplp.alt_idx]
           /\ mplp.oth = SiteTotal - mplp.dp
           /\ \A c \in DOMAIN plp :
                  /\ plp[c].ad = plp[c].bc[mplp.alt_idx]
                  /\ plp[c].dp = plp[c].bc[mplp.ref_idx] + plp[c].bc[mplp.alt_idx]
                  /\ plp[c].oth = CellTotal(c) - plp[c].dp

\* counts A = 4, C = 0, G = 1 with the pair C/G set by the caller:
\* AD = 1, DP = 1, OTH = 4
C11_Witness ==
    /\ Emitted
    /\ SeedOf(gs, 0, 1) = [ref |-> 1, alt |-> 2]
    /\ SiteBc[0] = 4 /\ SiteBc[1] = 0 /\ SiteBc[2] = 1
    /\ mplp.ref_idx = 1 /\ mplp.alt_idx = 2
    /\ mplp.inf_rid = 0 /\ mplp.inf_aid = 2
    /\ mplp.ad = 1 /\ mplp.dp = 1 /\ mplp.oth = 4

\* the site the single worker is at: its chromosome and its position
SiteChrom == td[0].n + td[0].k

SitePos == td[0].p

Listed(g, chrom, pos) == \E r \in g.pl : r.chrom = chrom /\ r.pos = pos

\* C12: in target mode ref_idx/alt_idx hold the pair of the SNP list while
\* the reads of a site are pushed, and a site that is emitted is in the SNP
\* list and passes the min_count and min_maf thresholds
C12_TargetSeeded ==
    gs.is_target =>
        /\ snp.pc = "push" =>
              /\ mplp.ref_idx = SeedOf(gs, SiteChrom, SitePos).ref
              /\ mplp.alt_idx = SeedOf(gs, SiteChrom, SitePos).alt
        /\ Emitted =>
              /\ Listed(gs, SiteChrom, SitePos)
              /\ ~BelowMinCount(SiteTotal, gs)
              /\ ~BelowMinMaf(SiteBc, infer_allele(SiteBc).aid, SiteTotal, gs)

\* the scheduler is past the barrier, at a merge or at the clean-up after it
Merging == pc \in {"merge_ad", "merge_dp", "merge_oth", "merge_vcf", "clean"}

\* shard i has been handed to the pool
Submitted(i) == td[i].is_tmp /\ td[i].st \in {"queued", "running", "done"}

\* the worker of shard i has ended with d->ret < 0
ShardFailed(i) == td[i].is_tmp /\ td[i].st = "done" /\ td[i].ret < 0

\* C13: in the multi-thread path, while a final output is merged every
\* shard has been submitted and its worker has terminated; a final file is
\* written only when no worker is left that may write a temp file
C13_MergeAfterAllShards ==
    /\ Merging => \A i \in Shards : Submitted(i) /\ td[i].st = "done"
    /\ (\E i \in Shards : td[i].is_tmp) /\ fin # FinInit =>
           \A i \in Shards : td[i].st = "done"

\* the second shard ended before the first, the merge began after both
C13_Witness ==
    /\ pc = "merge_dp"
    /\ order
    /\ \A i \in Shards : td[i].st = "done" /\ td[i].ns >= 1

ShardWentThrough(i) == td[i].is_tmp /\ td[i].st = "done" /\ td[i].ret = 0

\* csp_pileup has returned from the multi-thread path
MultiReturned == pc = "done" /\ \E i \in Shards : td[i].is_tmp

RECURSIVE AllLines(_, _)
AllLines(kd, i) == IF i < 0 THEN <<>> ELSE AllLines(kd, i - 1) \o tmp[i][kd]

\* the shard files of a matrix hold as many site ends as the workers counted
\* sites, and as many records as they counted records
Matches(kd) ==
    LET L == AllLines(kd, NChrom - 1)
    IN /\ Cardinality(SiteEnds(L)) = SumShards("ns", NChrom - 1)
       /\ Cardinality(CellLines(L)) = SumShards(NrField(kd), NChrom - 1)

\* the matrices merged before the scheduler came to where it is
MergedAt(at) ==
    IF at = "merge_dp" THEN {"ad"}
    ELSE IF at = "merge_oth" THEN {"ad", "dp"}
    ELSE IF at \in {"merge_vcf", "clean"} THEN Kinds
    ELSE {}

\* the matrix a merge step is about
KindAt(at) == IF at = "merge_ad" THEN "ad" ELSE IF at = "merge_dp" THEN "dp" ELSE "oth"

\* C16: a merge is left for the next step only when what was merged matches
\* the shard sums; a merge that does not match, or fails, leads to the
\* failure path and a return of -1; 0 is returned only after three merges
\* that matched
C16_MergeVerified ==
    /\ [](\A kd \in MergedAt(pc) : Matches(kd))
    /\ [][/\ pc \in {"merge_ad", "merge_dp", "merge_oth"} /\ ~Matches(KindAt(pc)) => pc' = "fail"
          /\ pc = "fail" => pc' = "done" /\ ret' = -1
          /\ ret' = 0 => pc = "clean" /\ \A kd \in Kinds : Matches(kd)]_vars

\* the AD merge matched, the DP merge did not: a record is missing
C16_Witness ==
    /\ pc = "fail"
    /\ Matches("ad")
    /\ ~Matches("dp")
    /\ Len(fin["ad"]) > Len(MtxHeader) + 1
    /\ Len(fin["dp"]) > Len(MtxHeader) + 1
    /\ fin["oth"] = MtxHeader

\* the j-th line of a sequence that is not empty
DataPos(L, n) ==
    CHOOSE j \in DOMAIN L :
        /\ Len(L[j].f) > 0
        /\ Cardinality({e \in 1..j : Len(L[e].f) > 0}) = n

\* what the merge of a matrix is to write: every non-empty line once, in the
\* order read, with 1 + the number of empty lines read before it in front
Renumbered(L) ==
    [n \in 1..Cardinality(CellLines(L)) |->
        LET j == DataPos(L, n)
        IN DatLine(<<1 + Cardinality({e \in 1..(j - 1) : Len(L[e].f) = 0})>> \o L[j].f)]

\* C17: merge_mtx over the shard files of a matrix appends every non-empty
\* line once, in input order, with 1 + the number of empty lines read before
\* it over all shards in front; ns is the number of empty lines and nr the
\* number of non-empty lines; the final file of a merged matrix holds them
C17_MergeRenumbers ==
    \A kd \in Kinds :
        LET L == AllLines(kd, NChrom - 1)
            res == merge_mtx(MtxHeader, ShardFiles(kd))
        IN /\ res.out = MtxHeader \o Renumbered(L)
           /\ res.ns = Cardinality(SiteEnds(L))
           /\ res.nr = Cardinality(CellLines(L))
           /\ kd \in MergedAt(pc) => Body(kd) = Renumbered(L)

\* the DP matrix is merged: shard 0 has two sites, the record of shard 1 is
\* numbered 3
C17_Witness ==
    /\ pc = "merge_oth"
    /\ td[0].ns = 2
    /\ td[1].ns >= 1
    /\ \E n \in DOMAIN Body("dp") : Body("dp")[n].f[1] = 3
    /\ Cardinality(SiteEnds(AllLines("dp", NChrom - 1))) = td[0].ns + td[1].ns

\* C18: at every step of rewrite_mtx, a failed rename or an earlier failure
\* included, each final matrix has a file at its final path
C18_FinalFileAlwaysThere ==
    \A kd \in Kinds : kd \notin rw.gone

\* the number of '%' lines a file starts with
HeaderLen(lines) ==
    CHOOSE h \in 0..Len(lines) :
        /\ \A j \in 1..h : lines[j].c = "%"
        /\ h = Len(lines) \/ lines[h + 1].c # "%"

\* the '%' lines, one totals line, every body line as it was
Rewritten(lines, ns, nsmp, nr) ==
    LET h == HeaderLen(lines)
    IN SubSeq(lines, 1, h) \o <<DatLine(<<ns, nsmp, nr>>)>> \o SubSeq(lines, h + 1, Len(lines))

\* the final matrices rewrite_mtx has not been through yet
NotRewritten ==
    IF pc = "rewrite_ad" THEN Kinds
    ELSE IF pc = "rewrite_dp" THEN {"dp", "oth"}
    ELSE IF pc = "rewrite_oth" THEN {"oth"}
    ELSE {}

\* C19: rewrite_mtx fails when nr != 0 and the file has no body line; when
\* it succeeds the file holds the original '%' lines, one totals line
\* ns, ncells, nr, and every original body line, unchanged and in order;
\* the sibling file that is renamed holds exactly that
C19_RewriteKeepsBody ==
    /\ \A kd \in NotRewritten :
          LET nr == td[0][NrField(kd)]
              res == rewrite_mtx(fin[kd], td[0].ns, nsample(gs), nr)
          IN /\ nr # 0 /\ HeaderLen(fin[kd]) = Len(fin[kd]) => res.ret # 0
             /\ res.ret = 0 => res.lines = Rewritten(fin[kd], td[0].ns, nsample(gs), nr)
    /\ rw.pc = "copied" =>
          rw.new = Rewritten(fin[rw.kd], td[0].ns, nsample(gs), td[0][NrField(rw.kd)])

\* the copy of a DP matrix with two body lines is made, AD is rewritten
C19_Witness ==
    /\ rw.pc = "copied"
    /\ rw.kd = "dp"
    /\ Len(fin["dp"]) >= Len(MtxHeader) + 2
    /\ Len(rw.new) = Len(fin["dp"]) + 1
    /\ rw.new[Len(MtxHeader) + 2] = fin["dp"][Len(MtxHeader) + 1]
    /\ Len(fin["ad"]) > Len(MtxHeader)
    /\ fin["ad"][Len(MtxHeader) + 1].f = <<td[0].ns, nsample(gs), td[0].nr_ad>>

\* mp_func has handed a read over
Admitted == mp.calls >= 1 /\ mp.ret >= 0

\* the checks of mp_func other than the one of rflag_require let b through
OtherChecksPass(b, g) ==
    /\ b.tid >= 0 /\ BAM_FUNMAP \notin b.flag
    /\ b.qual >= g.min_mapq
    /\ g.rflag_filter \cap b.flag = {}
    /\ ~(g.no_orphan /\ BAM_FPAIRED \in b.flag /\ BAM_FPROPER_PAIR \notin b.flag)

\* C20 as stated: a read that is handed over has every bit of rflag_require
C20_RequireAllBits ==
    Admitted => gs.rflag_require \subseteq mp.b.flag

\* C20 amended: a read that is handed over has at least one bit of
\* rflag_require when rflag_require is not 0; a read the other checks let
\* through is passed over only when rflag_require is not 0 and the read has
\* none of its bits
C20_RequireAnyBit ==
    /\ Admitted => gs.rflag_require = {} \/ gs.rflag_require \cap mp.b.flag # {}
    /\ \A b \in mp.skipped :
          OtherChecksPass(b, gs) => gs.rflag_require # {} /\ gs.rflag_require \cap b.flag = {}

\* paired and proper pair are required: a read that is paired only is handed
\* over after a read with neither bit was passed over
C20_Witness ==
    /\ Admitted
    /\ gs.rflag_require = {BAM_FPAIRED, BAM_FPROPER_PAIR}
    /\ mp.b.flag = {BAM_FPAIRED}
    /\ BamRd(0, {}, 30) \in mp.skipped

\* C21: a read mp_func hands over has a reference id >= 0 and is not
\* unmapped, has a mapping quality >= min_mapq and no bit of rflag_filter,
\* and is a proper pair when no_orphan is set and it is paired; every read
\* passed over fails one of the checks; ret is negative only when the
\* iterator has nothing left
C21_AdmittedPassesChecks ==
    /\ Admitted => OtherChecksPass(mp.b, gs)
    /\ \A b \in mp.skipped :
          ~OtherChecksPass(b, gs)
              \/ (gs.rflag_require # {} /\ gs.rflag_require \cap b.flag = {})
    /\ mp.ret < 0 => mp.calls >= 1 /\ mp.itr = <<>>

\* two reads were passed over, for the mapping quality and as an orphan,
\* before the iterator ended
C21_Witness ==
    /\ mp.ret < 0
    /\ gs.min_mapq = 20 /\ gs.no_orphan /\ gs.rflag_require = {}
    /\ mp.skipped = {BamRd(0, {BAM_FPAIRED}, 10), BamRd(0, {BAM_FPAIRED}, 30)}

\* what the claim asks of a read that is pushed
ReadOk(rd, g) ==
    /\ use_umi(g) => rd.umi # 0
    /\ use_barcodes(g) => rd.cb # 0
    /\ ~rd.is_del /\ ~rd.is_refskip
    /\ g.min_len > 0 => rd.laln >= g.min_len

\* the read in hand has been through pileup_read and csp_mplp_push
Pushed == snp.pc = "pushed"

\* C22: a read is pushed (it is counted, or a cell group changes) only if
\* it has the UMI tag in UMI mode and the barcode tag in barcode mode, its
\* column is neither a deletion nor a reference skip, and with min_len > 0
\* its aligned length is at least min_len; a read that fails one of these
\* changes nothing and is no error
C22_PushedPassesReadChecks ==
    [][snp.pc = "push" /\ snp'.pc # "push" =>
          /\ snp'.npushed # snp.npushed \/ plp' # plp => ReadOk(snp.rd, gs)
          /\ ~ReadOk(snp.rd, gs) =>
                plp' = plp /\ snp'.npushed = snp.npushed /\ snp'.pc = "pushed"]_vars

\* min_len = 2: a read with three aligned bases has been pushed
C22_Witness ==
    /\ Pushed
    /\ gs.min_len = 2
    /\ snp.rd.laln = 3
    /\ snp.nread = 1
    /\ snp.npushed = 1
    /\ \E c \in DOMAIN plp : plp[c] # PlpInit

\* the cell group of the read in hand: 0 when its barcode is not in the list
GroupOf(rd, g) ==
    IF use_barcodes(g) THEN (IF rd.cb \in 1..g.nbarcode THEN rd.cb ELSE 0) ELSE rd.file + 1

\* C23: one push changes the counts of no cell group but the one of the
\* read's barcode (barcode mode) or of the read's file (per-file mode); a
\* read whose barcode is not in the list changes nothing, is not counted and
\* is no error
C23_OneCellGroupChanges ==
    [][snp.pc = "push" /\ snp'.pc # "push" =>
          /\ \A c \in DOMAIN plp : c # GroupOf(snp.rd, gs) => plp'[c] = plp[c]
          /\ mplp' = mplp
          /\ GroupOf(snp.rd, gs) = 0 =>
                plp' = plp /\ snp'.npushed = snp.npushed /\ snp'.pc = "pushed"]_vars

\* a read with a barcode that is not in the list went by after two pushes
C23_Witness ==
    /\ Pushed
    /\ use_barcodes(gs)
    /\ snp.rd.cb = UnknownBarcode
    /\ ReadOk(snp.rd, gs)
    /\ snp.nread = 3
    /\ snp.npushed = 2

(***************************************************************************)
(* C24: in the multi-thread path the temp files of the shards are pairwise *)
(* distinct (one name per shard and matrix, none the name of a final       *)
(* file); a step changes the temp files of shard j only if it is a step of *)
(* the worker of shard j, and then no other shard's; and no step of a      *)
(* shard worker changes a final file.                                      *)
(***************************************************************************)
TmpNames == {create_tmp_fs(kd, i) : kd \in Kinds, i \in Shards}

\* the step is one of the worker of shard j
StepOf(j) == td[j].st \in {"queued", "running"} /\ td'[j] # td[j]

C24_WorkersWriteOwnFiles ==
    [][/\ Cardinality(TmpNames) = Cardinality(Kinds) * NChrom
       /\ \A kd \in Kinds : <<kd>> \notin TmpNames
       /\ pc \in {"submit", "wait"} =>
             /\ \A j \in Shards : tmp'[j] # tmp[j] =>
                    StepOf(j) /\ \A i \in Shards \ {j} : tmp'[i] = tmp[i]
             /\ fin' = fin]_vars

\* two workers run at once and each has written a line to its own files
C24_Witness ==
    /\ pc = "wait"
    /\ \A i \in Shards : td[i].st = "running" /\ tmp[i]["ad"] # <<>>

(***************************************************************************)
(* C25: when the chromosome worker has returned, on whichever path,        *)
(* everything it acquired is released (nothing is held any more), nothing  *)
(* was released that was not held (nothing twice), and no writer is open.  *)
(***************************************************************************)
C25_AllReleasedOnce ==
    core.pc = "ret" => core.held = {} /\ core.twice = {} /\ core.open = {}

\* the sum of the values of row k of a final matrix
RowSum(kd, k) ==
    LET B == Body(kd)
    IN SumTo([j \in 0..Len(B) |-> IF j > 0 /\ B[j].f[1] = k THEN B[j].f[3] ELSE 0], Len(B))

\* the sites of the input that pileup_snp emits, as (chromosome, index of the
\* column in the chromosome): the index of the first column is 1
EmittedSites ==
    {x \in Shards \X (1..MaxSites) :
        /\ x[2] <= Len(tape.sites[x[1]])
        /\ pileup_snp(tape.sites[x[1]][x[2]], csp_mplp_prepare(gs), MplpInit, gs).state = 0}

\* record k of the base VCF comes before record k + 1 in the chromosome list,
\* or on the same chromosome at a smaller position
VcfInOrder(V) ==
    \A k \in 1..(Len(V) - 1) :
        \/ V[k].chrom < V[k + 1].chrom
        \/ V[k].chrom = V[k + 1].chrom /\ V[k].pos < V[k + 1].pos

(***************************************************************************)
(* C26: after a run that returned 0 the final base VCF has one record for  *)
(* each emitted site of the input and none for another, in the order of    *)
(* the chromosome list and of the positions; its position is the 1-based   *)
(* one (the first column of a chromosome has 1); record k carries the      *)
(* counts of row k of the three matrices; and on the multi-thread path the *)
(* file is, whatever the order in which the workers ended, the shard VCF   *)
(* files one after the other in shard order.                               *)
(***************************************************************************)
C26_VcfRecordPerEmittedSite ==
    /\ Done =>
          /\ {<<vcf.fin[k].chrom, vcf.fin[k].pos>> : k \in DOMAIN vcf.fin} = EmittedSites
          /\ Len(vcf.fin) = Cardinality(EmittedSites)
          /\ VcfInOrder(vcf.fin)
          /\ \A k \in DOMAIN vcf.fin :
                /\ vcf.fin[k].ad = RowSum("ad", k)
                /\ vcf.fin[k].dp = RowSum("dp", k)
                /\ vcf.fin[k].oth = RowSum("oth", k)
    /\ pc = "clean" => vcf.fin = CopyFiles(<<>>, ShardVcfs, NChrom)

\* a two-thread run has returned 0, the worker of a later shard ended before
\* that of an earlier one, and the base VCF has a record from each shard
C26_Witness ==
    /\ Done
    /\ td[0].is_tmp
    /\ order
    /\ Len(vcf.fin) = 2
    /\ vcf.fin[1].chrom # vcf.fin[2].chrom

\* the shards csp_pileup has made a thread_data for
Started == {i \in Shards : td[i].st # "none"}

RewriteStages == {"rewrite_ad", "rewrite_dp", "rewrite_oth"}

\* the step returns -1 for a reason: it is the failure path of the
\* multi-thread branch, the setup of the single thread failed, its worker
\* ended with d->ret < 0, or a rewrite_mtx ended without the final file
\* replaced
ReturnsForFailure ==
    \/ pc = "fail"
    \/ pc = "init"
    \/ pc = "single" /\ td[0].ret < 0
    \/ pc \in RewriteStages /\ fin' = fin

(***************************************************************************)
(* C27: csp_pileup returns 0 or -1.  It returns 0 only when every worker   *)
(* ended with 0 and every final matrix has its totals line (merged or      *)
(* rewritten); it returns -1 when a worker ended below 0; a step that has  *)
(* gone to the failure path is followed by the return of -1; and it        *)
(* returns -1 only after a step that failed: when none did, it returns 0.  *)
(***************************************************************************)
C27_ReturnCode ==
    /\ [](pc = "done" => ret \in {0, -1})
    /\ [](pc = "done" /\ ret = 0 =>
             /\ \A i \in Started : td[i].st = "done" /\ td[i].ret = 0
             /\ \A kd \in Kinds : Len(fin[kd]) > Len(MtxHeader)
                                  /\ NumSites(kd) = SumShards("ns", NChrom - 1))
    /\ [](pc = "done" /\ (\E i \in Started : td[i].st = "done" /\ td[i].ret < 0) => ret = -1)
    /\ [][/\ pc = "fail" => pc' = "done" /\ ret' = -1
          /\ pc = "clean" => pc' = "done" /\ ret' = 0
          /\ pc # "done" /\ pc' = "done" /\ ret' = -1 => ReturnsForFailure
          /\ pc \in RewriteStages /\ pc' = "done" /\ fin' # fin => ret' = 0]_vars

\* every worker of a two-thread run ended with 0, a merge failed, and -1 is
\* returned
C27_Witness ==
    /\ pc = "done"
    /\ ret = -1
    /\ \A i \in Shards : td[i].is_tmp /\ td[i].st = "done" /\ td[i].ret = 0

(***************************************************************************)
(* C28: when the first read of a site is about to be pushed, whatever the  *)
(* sites before it were (emitted, skipped by the early check, skipped by   *)
(* csp_mplp_stat), every cell group has zero counts, no quality and no UMI *)
(* and the per-site state is zero, the pair unset; the cell groups are     *)
(* those csp_mplp_prepare made.                                            *)
(***************************************************************************)
C28_SiteStartsClean ==
    snp.pc = "push" /\ snp.col = 0 =>
        /\ DOMAIN plp = 1..PrepareNsg(gs)
        /\ \A c \in DOMAIN plp : plp[c] = PlpInit
        /\ mplp = MplpInit

\* the second site of the worker is entered, the first one was skipped after
\* reads of it had been counted
C28_Witness ==
    /\ snp.pc = "push"
    /\ snp.col = 0
    /\ td[0].p = 2
    /\ td[0].ns = 0
    /\ snp.nread >= 1
    /\ gs.min_count = 2

\* the chromosomes (indices into the chromosome list) worker i is given:
\* a[0..m-1] with a = gs->chroms + d->n
ChromsOf(i) == td[i].n .. (td[i].n + td[i].m - 1)

(***************************************************************************)
(* C29: once the workers are set up, the chromosomes they are given are    *)
(* the chromosome list, each chromosome given to one worker: on the        *)
(* multi-thread path there are nchrom shards and shard i is given          *)
(* chromosome i alone, on the single-thread path the one worker is given   *)
(* 0..nchrom-1.  A worker goes through its chromosomes one at a time in    *)
(* list order, reads the columns of the one it is at, and has gone through *)
(* each of them once when it ends with 0.                                  *)
(***************************************************************************)
C29_EachChromosomeOnce ==
    /\ [](pc \notin {"init", "done"} =>
             /\ UNION {ChromsOf(i) : i \in Started} = 0..(gs.nchrom - 1)
             /\ \A i, j \in Started : i # j => ChromsOf(i) \cap ChromsOf(j) = {}
             /\ IF gs.tp /\ gs.nthread > 1
                THEN /\ Cardinality(Started) = gs.nchrom
                     /\ \A i \in Started : ChromsOf(i) = {i}
                ELSE Started = {0} /\ ChromsOf(0) = 0..(gs.nchrom - 1))
    /\ [](\A i \in Started : td[i].st = "done" /\ td[i].ret = 0 => td[i].k = td[i].m)
    /\ [][\A i \in Shards :
             /\ td'[i].k # td[i].k =>
                   \/ td[i].st = "running" /\ td[i].k < td[i].m /\ td'[i].k = td[i].k + 1
                   \/ td'[i].k = 0
             /\ td'[i].p > td[i].p => td'[i].k = td[i].k /\ td[i].n + td[i].k \in ChromsOf(i)]_vars

\* two shards, each has gone through its one chromosome, and a column of
\* each was read
C29_Witness ==
    /\ pc = "wait"
    /\ \A i \in Shards : td[i].st = "done" /\ td[i].ret = 0 /\ td[i].k = 1 /\ td[i].p = 0
    /\ nsites = 2

\* the k-th emitted site of the input, in the order of the chromosome list
\* and of the positions
KthSite(k) ==
    CHOOSE x \in EmittedSites :
        Cardinality({y \in EmittedSites : y[1] < x[1] \/ (y[1] = x[1] /\ y[2] < x[2])}) = k - 1

\* the cells (column, value) a final matrix holds in row k
RowCells(kd, k) ==
    {<<Body(kd)[j].f[2], Body(kd)[j].f[3]>> : j \in {n \in DOMAIN Body(kd) : Body(kd)[n].f[1] = k}}

\* the cells (cell group, value) with a nonzero value of a site, as
\* csp_mplp_stat leaves them
SiteCells(x, kd) ==
    LET ps == pileup_snp(tape.sites[x[1]][x[2]], csp_mplp_prepare(gs), MplpInit, gs).plp
    IN {<<c, ps[c][kd]>> : c \in {n \in DOMAIN ps : ps[n][kd] # 0}}

(***************************************************************************)
(* C30: after a run that returned 0 the three matrices give the same       *)
(* NUM_SITES, the number of emitted sites of the input, and row k of each  *)
(* of them holds the nonzero cells of the k-th emitted site and nothing    *)
(* else: an emitted site takes a row in all three, also in a matrix where  *)
(* no cell of it has a nonzero value.                                      *)
(***************************************************************************)
C30_RowIsSameSite ==
    Done =>
        \A kd \in Kinds :
            /\ NumSites(kd) = Cardinality(EmittedSites)
            /\ \A k \in 1..Cardinality(EmittedSites) : RowCells(kd, k) = SiteCells(KthSite(k), kd)
            /\ \A j \in DOMAIN Body(kd) : Body(kd)[j].f[1] \in 1..Cardinality(EmittedSites)

\* a run has returned 0 with two emitted sites; the first has no cell in
\* the AD matrix, the second has one
C30_Witness ==
    /\ Done
    /\ Cardinality(EmittedSites) = 2
    /\ RowCells("ad", 1) = {}
    /\ RowCells("ad", 2) # {}
    /\ RowCells("dp", 1) # {}

\* the resources of kind kd in a set of resources
OfKind(S, kd) == {x \in S : x[1] = kd}

\* the multi-thread branch was entered and csp_pileup has returned
SetupReturned == pc = "done" /\ su.pc # "idle"

(***************************************************************************)
(* C31: once the setup of the multi-thread branch is through, the count of *)
(* registered iterator sets (ntiter) is the number of shards; and when     *)
(* csp_pileup has returned from that branch, with 0 or with -1, no region  *)
(* iterator made by the setup is still held and none was destroyed while   *)
(* not held.                                                               *)
(***************************************************************************)
C31_IteratorsRegisteredAndDestroyed ==
    /\ su.pc = "run" => su.ntiter = NChrom
    /\ SetupReturned => OfKind(su.held, "itr") = {} /\ OfKind(su.twice, "itr") = {}

(***************************************************************************)
(* C32: the failure path and the clean path release the thread_data and    *)
(* the temp files only when no submitted worker is still in the pool       *)
(* (queued or running): no shard was in the pool when either ran.          *)
(***************************************************************************)
C32_NoReleaseWhileWorkersRun ==
    su.early = {}

(***************************************************************************)
(* C33: when csp_pileup has returned from the multi-thread branch, with 0  *)
(* or with -1, every header that shard 0 read is released, and none was    *)
(* released while not held (none more than once).                          *)
(***************************************************************************)
C33_SharedHeaderReleasedOnce ==
    SetupReturned => OfKind(su.held, "hdr") = {} /\ OfKind(su.twice, "hdr") = {}

(***************************************************************************)
(* C34: when csp_pileup has returned 0, every chromosome of the list was   *)
(* given to a worker that ended with 0 after going through it, and every   *)
(* final matrix has its totals line.                                       *)
(***************************************************************************)
C34_ZeroMeansAllProcessed ==
    pc = "done" /\ ret = 0 =>
        /\ \A c \in 0..(gs.nchrom - 1) :
              \E i \in Shards : /\ td[i].st = "done"
                                /\ td[i].ret = 0
                                /\ c \in ChromsOf(i)
                                /\ td[i].k = td[i].m
        /\ \A kd \in Kinds : Len(fin[kd]) > Len(MtxHeader)

\* the step is the worker of shard i going through a column that pileup_snp
\* skips (returns 1 for)
SkipsSite(i) ==
    /\ td[i].st = "running"
    /\ td'[i].st = "running"
    /\ td'[i].p = td[i].p + 1
    /\ pileup_snp(tape'.sites[td[i].n + td[i].k][td'[i].p], csp_mplp_prepare(gs), MplpInit,
                  gs).state > 0

(***************************************************************************)
(* C35: a step of a worker through a skipped site leaves ns, nr_ad, nr_dp  *)
(* and nr_oth of its shard and every output file (the temp files of all    *)
(* shards, the final files, the VCF files) as they were.  A worker that    *)
(* has started has status 0 only when it has ended after going through     *)
(* all its chromosomes, with no writer open; while it runs, and when it    *)
(* has ended before that, its status is -1.                                *)
(***************************************************************************)
C35_SkipWritesNothingRetAtEnd ==
    /\ [][\A i \in Shards :
            SkipsSite(i) =>
                /\ td'[i].ns = td[i].ns
                /\ td'[i].nr_ad = td[i].nr_ad
                /\ td'[i].nr_dp = td[i].nr_dp
                /\ td'[i].nr_oth = td[i].nr_oth
                /\ tmp' = tmp /\ fin' = fin /\ vcf' = vcf /\ tmpex' = tmpex]_vars
    /\ [](\A i \in Shards :
            /\ td[i].st = "running" => td[i].ret = -1
            /\ td[i].st = "done" => td[i].ret = IF td[i].k = td[i].m THEN 0 ELSE -1)
    /\ [](core.pc # "idle" =>
            /\ core.ret \in {0, -1}
            /\ core.ret = 0 <=> (core.pc = "ret" /\ core.n = core.m)
            /\ core.ret = 0 => core.open = {})

\* a worker has counted and written one site and has then gone through a
\* site that is skipped
C35_Witness ==
    \E i \in Shards :
        /\ td[i].st = "running"
        /\ td[i].p = 2
        /\ td[i].ns = 1
        /\ Len(tape.sites[td[i].n + td[i].k]) >= 2
        /\ pileup_snp(tape.sites[td[i].n + td[i].k][2], csp_mplp_prepare(gs), MplpInit,
                      gs).state > 0

====
